---- MODULE Spec2Model ----
(***************************************************************************)
(* prime-compute-manager: the job queue (queue.py) on top of the pod       *)
(* lifecycle operations of PrimeManager (manager.py).                      *)
(*                                                                         *)
(* The queue runs on one asyncio event loop: a coroutine runs without      *)
(* interruption from one await to the next, so every action below is one   *)
(* such uninterrupted stretch of a coroutine, or one synchronous call.     *)
(*                                                                         *)
(* The specifications share the variables: Spec (FairSpec) is the queue    *)
(* over a manager used through its interface; ManagerSpec is PrimeManager  *)
(* called directly, one method per step, with arbitrary provider answers;  *)
(* DiscoverySpec is create_pod over an inventory that changes; FindSpec is *)
(* find_gpus and the resource listing of cli.py, one request over each     *)
(* inventory; RetrySpec (FairRetrySpec) is the retry loop of the two       *)
(* external calls; MonitorSpec is the alerts of ResourceMonitor            *)
(* (monitor.py) under the turns of its loop; ScheduledSpec is the queue    *)
(* with the steps that the event loop is bound to take; NormalizeSpec is   *)
(* the conversion of one raw inventory answer; LoopSpec and                *)
(* ConcurrentLoopSpec are start() and stop() of the monitor called by one  *)
(* thread and by several; ThreadedSpec is PrimeManager used by the         *)
(* monitor's thread and the scheduler's thread at once.                    *)
(***************************************************************************)
EXTENDS Integers, Sequences, FiniteSets, TLC

\* Bounds of the model.
MaxJobs == 2            \* number of add_job calls
MaxConcurrent == 2      \* max_concurrent_jobs is drawn from 1..MaxConcurrent
NumRunners == 2         \* process_all executions that may be live at once
MaxPods == 2            \* pod identities the provider hands out
MaxOffers == 2          \* records an availability source answers with
MaxAlerts == 2          \* alerts registered with the monitor at once
MaxTime == 5            \* last reading of the clock, in half hours
MaxLoops == 5           \* threads that the start() calls make
NumCallers == 2         \* threads that call start() and stop()

VARIABLES
    max_concurrent_jobs,  \* JobQueue.max_concurrent_jobs
    jobs,                 \* JobQueue._jobs: job id -> Job
    job_queue,            \* JobQueue._job_queue: sequence of job ids
    running_jobs,         \* JobQueue._running_jobs: job id -> task
    tasks,                \* the asyncio tasks made by create_task, in creation order
    runners,              \* the process_all coroutines
    pods,                 \* PrimeManager._pods: pod id -> Pod
    terminate_calls,      \* pod id -> number of terminate_pod calls made for it
    issued,               \* external commands run by the last PrimeManager call
    inventory,            \* what the provider's two availability sources answer
    use_api,              \* PrimeManager.use_api
    returned,             \* the list the last find_gpus / list_pods / listing gave back
    request,              \* the options of the command line being served
    call,                 \* the external call being made: its retry loop
    now,                  \* what datetime.utcnow() answers to the monitor
    alerts,               \* ResourceMonitor._alerts: alert id -> Alert
    dispatched,           \* the alerts the last monitor tick sent a notification for
    monitoring,           \* ResourceMonitor._monitoring
    monitor_thread,       \* ResourceMonitor._monitor_thread: a thread, or 0 for None
    loops,                \* the threads made by start(), in creation order: where each is
    callers,              \* the threads that call start() and stop(): where each is
    last_call,            \* the latest of: a start() call begun, a stop() call returned
    inflight,             \* the PrimeManager calls of the two threads between command and write
    ret                   \* result of the last add_job / cancel_job call

queueVars == <<max_concurrent_jobs, jobs, job_queue, running_jobs, tasks, runners, ret>>
providerVars == <<issued, inventory>>
discoveryVars == <<use_api, returned, request>>
retryVars == <<call>>
threadVars == <<monitoring, monitor_thread, loops, callers, last_call, inflight>>
monitorVars == <<now, alerts, dispatched, threadVars>>
componentVars == <<discoveryVars, retryVars, monitorVars>>
managerVars == <<pods, terminate_calls, providerVars, componentVars>>
vars == <<queueVars, managerVars>>

\* ResourceMonitor.__init__: not monitoring, no thread; nobody calls.
NoThreads ==
    /\ monitoring = FALSE
    /\ monitor_thread = 0
    /\ loops = <<>>
    /\ callers = <<>>
    /\ last_call = "None"
    /\ inflight = <<>>

JobIds == 1..MaxJobs
Runners == 1..NumRunners
PodIds == 1..MaxPods

\* models.py: the enumerations.  None is modelled as 0 for identities and as
\* the string "None" for texts and timestamps.  The modelled code writes
\* timestamps and never reads them, so a timestamp is either "None" or the
\* value utcnow that datetime.utcnow() returned.
JobStatus == {"pending", "running", "completed", "failed", "cancelled"}
PodStatus == {"creating", "running", "stopping", "stopped", "failed"}
TerminalJobStatus == {"completed", "failed", "cancelled"}

\* What the provider answers to `prime pods status` while a job polls: a
\* status text (known or not), or a failure of the command.  The readiness
\* loop treats stopping and stopped as it treats creating, and the queue
\* reads nothing but the status.
StatusReplies == {"creating", "running", "failed", "unknown", "error"}

utcnow == "utcnow"

----------------------------------------------------------------------------
(* PrimeManager                                                            *)

\* _parse_pod_status: an unrecognised status text defaults to running.
parse_pod_status(s) == IF s \in PodStatus THEN s ELSE "running"

\* models.py: the members of GPUType.  manager.py also names GPUType.UNKNOWN
\* and GPUType.CPU, which are not members: evaluating them raises
\* AttributeError.
GPUType == {"H100_80GB", "A100_80GB", "A100_40GB", "V100_32GB", "RTX_4090"}

HasMember(name) == name \in GPUType

\* The spellings that _parse_gpu_type maps to a member: the first word, in
\* upper case, compared with and without underscores.
GPUTypeSpelling ==
    [s \in GPUType |-> s] @@ ("h100_80gb" :> "H100_80GB") @@ ("H10080GB" :> "H100_80GB")

\* _parse_gpu_type: the member for a known spelling; for an empty text, a
\* CPU entry or anything else it evaluates GPUType.UNKNOWN or GPUType.CPU.
parse_gpu_type(s) ==
    IF s \in DOMAIN GPUTypeSpelling
    THEN [raised |-> FALSE, value |-> GPUTypeSpelling[s]]
    ELSE IF HasMember("UNKNOWN") /\ HasMember("CPU")
    THEN [raised |-> FALSE, value |-> IF s = "CPU" THEN "CPU" ELSE "UNKNOWN"]
    ELSE [raised |-> TRUE, value |-> "None"]

\* A resource as find_gpus handles it.  A table row carries the GPU text as
\* printed; a structured record carries a member of GPUType.  An absent
\* identifier is the empty string, as is a missing cloudId.
Resource(gpu, avail, cost, prov, id) ==
    [gpu_type |-> gpu, available_count |-> avail, cost_per_hour |-> cost,
     provider |-> prov, prime_id |-> id]

\* An availability source: whether it answered, and its records in order.
Source(ok, rs) == [ok |-> ok, resources |-> rs]

\* No external call is being made.
NoCall == [client |-> "None"]

\* No command line is being served.
NoRequest == [command |-> "None"]

\* Neither source answers.
NoInventory == [api |-> Source(FALSE, <<>>), cli |-> Source(FALSE, <<>>)]

\* max_cost_per_hour = None.
NoCeiling == -1

\* str.lower() on the provider names that occur.
Lower(s) == IF s = "AWS" THEN "aws" ELSE s

\* a in b, for the provider names that occur.
IsSubstring(a, b) == a = b \/ <<a, b>> \in {<<"aw", "aws">>}

\* The conversion loop over the table rows: a row whose GPU text does not
\* parse raises and ends the loop with the rows converted so far; a row of
\* another category than the requested one, with too few GPUs or above the
\* ceiling is skipped.
RECURSIVE CliLoop(_, _, _, _, _)
CliLoop(rows, acc, gpu_type, min_count, max_cost) ==
    IF rows = <<>>
    THEN [raised |-> FALSE, resources |-> acc]
    ELSE LET r == Head(rows)
             g == parse_gpu_type(r.gpu_type)
         IN IF g.raised
            THEN [raised |-> TRUE, resources |-> acc]
            ELSE IF gpu_type # "None" /\ g.value # gpu_type
            THEN CliLoop(Tail(rows), acc, gpu_type, min_count, max_cost)
            ELSE IF /\ r.available_count >= min_count
                    /\ max_cost = NoCeiling \/ r.cost_per_hour <= max_cost
            THEN CliLoop(Tail(rows), Append(acc, [r EXCEPT !.gpu_type = g.value]),
                         gpu_type, min_count, max_cost)
            ELSE CliLoop(Tail(rows), acc, gpu_type, min_count, max_cost)

\* Faulty variant of Matches: the provider names are compared as written.
MatchesCaseSensitive(a, c) == c.gpu_type = a.gpu_type /\ c.provider = a.provider

\* The table record that lends its identifier to a structured record: the
\* first one of the same category and provider (case-insensitive).
Matches(a, c) == c.gpu_type = a.gpu_type /\ Lower(c.provider) = Lower(a.provider)

Enhance(a, cs) ==
    IF \E i \in 1..Len(cs) : Matches(a, cs[i])
    THEN LET i == CHOOSE i \in 1..Len(cs) :
                      Matches(a, cs[i]) /\ \A k \in 1..(i - 1) : ~Matches(a, cs[k])
         IN [a EXCEPT !.prime_id = cs[i].prime_id]
    ELSE a

\* Which records the local filters run over: structured ones with table
\* identifiers merged in, structured ones alone, or table ones.
ResourcesToFilter(as, cs) ==
    IF as # <<>> /\ cs # <<>>
    THEN [i \in 1..Len(as) |-> Enhance(as[i], cs)]
    ELSE IF as # <<>> THEN as ELSE cs

\* Faulty variant of KeepsFree: zero-cost entries always pass.
KeepsFreeAlways(r, include_free) == TRUE

\* not (not include_free and resource.cost_per_hour <= 0.0).
KeepsFree(r, include_free) == include_free \/ r.cost_per_hour > 0

\* The local filters; a ceiling of None or 0 is falsy and filters nothing.
PassesFilters(r, min_count, max_cost, provider, include_free) ==
    /\ provider = "None" \/ IsSubstring(Lower(provider), Lower(r.provider))
    /\ ~(max_cost # NoCeiling /\ max_cost # 0 /\ r.cost_per_hour > max_cost)
    /\ r.available_count >= min_count
    /\ KeepsFree(r, include_free)

\* Faulty variant of DiscoveryFails: a failing table source is always fatal.
DiscoveryFailsOnTable(c, api_resources) == c.raised

\* except Exception: if not api_resources: raise.
DiscoveryFails(c, api_resources) == c.raised /\ api_resources = <<>>

\* if self.use_api and self.api_client: the structured source is consulted
\* only then.
Consulted(inv, api_in_use) ==
    IF api_in_use THEN inv ELSE [inv EXCEPT !.api = Source(FALSE, <<>>)]

\* find_gpus: the structured source (a failure leaves no records), then the
\* table source (a failure raises only if there are no structured records),
\* the merge, and the local filters, which keep the order of the source.
find_gpus(inv, gpu_type, min_count, max_cost, provider, include_free) ==
    LET api_resources == IF inv.api.ok THEN inv.api.resources ELSE <<>>
        c == IF inv.cli.ok
             THEN CliLoop(inv.cli.resources, <<>>, gpu_type, min_count, max_cost)
             ELSE [raised |-> TRUE, resources |-> <<>>]
    IN IF DiscoveryFails(c, api_resources)
       THEN [raised |-> TRUE, resources |-> <<>>]
       ELSE [raised |-> FALSE,
             resources |->
                 SelectSeq(ResourcesToFilter(api_resources, c.resources),
                           LAMBDA r : PassesFilters(r, min_count, max_cost, provider,
                                                    include_free))]

\* A Pod record as the cache holds it: status, stop time, connection
\* endpoint ("None" when absent).
NewPod(st, ssh) == [status |-> st, stopped_at |-> "None", ssh_connection |-> ssh]

\* The manager as the JobQueue uses it, through its interface: create_pod
\* raises (ok = FALSE), or a Pod in status creating is stored under a fresh
\* identity and returned.
create_pod(ps, ok) ==
    IF ok
    THEN LET p == Cardinality(DOMAIN ps) + 1
         IN [raised |-> FALSE, pod_id |-> p, pods |-> (p :> NewPod("creating", "None")) @@ ps]
    ELSE [raised |-> TRUE, pod_id |-> 0, pods |-> ps]

\* The parsed output of `prime pods status`: the status text ("error" when
\* the command fails), the GPU text and the connection endpoint.  The output
\* parser produces no start or stop time.
StatusOutput(st, gpu, ssh) == [status |-> st, gpu_type |-> gpu, ssh_connection |-> ssh]

\* Faulty variant of CachedOrRaise: it raises whether cached or not.
RaiseAlways(ps, p) == [raised |-> TRUE, status |-> "None", pods |-> ps]

\* The handler of get_pod_status: the cached record if there is one, else
\* it raises.
CachedOrRaise(ps, p) ==
    IF p \in DOMAIN ps
    THEN [raised |-> FALSE, status |-> ps[p].status, pods |-> ps]
    ELSE [raised |-> TRUE, status |-> "None", pods |-> ps]

\* get_pod_status: a successful query overwrites the cached status with the
\* parsed one and the endpoint if one is reported; without a cached record
\* a new one is built (which parses the GPU text) and stored.  Any failure
\* on the way ends in the handler.
get_pod_status(ps, p, out) ==
    IF out.status = "error"
    THEN CachedOrRaise(ps, p)
    ELSE LET st == parse_pod_status(out.status)
         IN IF p \in DOMAIN ps
            THEN [raised |-> FALSE, status |-> st,
                  pods |-> [ps EXCEPT ![p] =
                               [@ EXCEPT !.status = st,
                                         !.ssh_connection =
                                             IF out.ssh_connection # "None"
                                             THEN out.ssh_connection ELSE @]]]
            ELSE IF parse_gpu_type(out.gpu_type).raised
            THEN CachedOrRaise(ps, p)
            ELSE [raised |-> FALSE, status |-> st,
                  pods |-> (p :> NewPod(st, out.ssh_connection)) @@ ps]

\* An external command: its name, and the pod identity or configuration
\* identifier it is run with (0 and the empty string when it has none).
Cmd(c, p, id) == [cmd |-> c, pod |-> p, prime_id |-> id]

\* Faulty variant of Stop: the record is dropped from the map.
StopAndDrop(ps, p) == [q \in DOMAIN ps \ {p} |-> ps[q]]

\* The update after a successful termination: stopped, with the stop time.
Stop(ps, p) == [ps EXCEPT ![p] = [@ EXCEPT !.status = "stopped", !.stopped_at = utcnow]]

\* Faulty variant of IsCached: every identity is taken as cached.
IsCachedAlways(ps, p) == TRUE

\* pod_id in self._pods
IsCached(ps, p) == p \in DOMAIN ps

\* Faulty variant of Unterminated: the record is stopped all the same.
StoppedAnyway(ps, p) == Stop(ps, p)

\* The external call raised before "Update local state": the map is as it
\* was.
Unterminated(ps, p) == ps

\* terminate_pod: not-found for an unknown identity, before any command; a
\* failed external call raises and changes nothing; otherwise the record
\* becomes stopped.
terminate_pod(ps, p, ok) ==
    IF ~IsCached(ps, p)
    THEN [raised |-> "ValueError", pods |-> ps, issued |-> <<>>]
    ELSE IF ~ok
    THEN [raised |-> "RuntimeError", pods |-> Unterminated(ps, p),
          issued |-> <<Cmd("pods terminate", p, "")>>]
    ELSE [raised |-> "None", pods |-> Stop(ps, p),
          issued |-> <<Cmd("pods terminate", p, "")>>]

\* Faulty variant of ListedOrCached: pods that are not listed are forgotten.
ListedOnly(ps, listing) == DOMAIN ps \cap DOMAIN listing

\* list_pods stores nothing and deletes nothing: the cached identities stay.
ListedOrCached(ps, listing) == DOMAIN ps

\* list_pods: every listed pod that is cached gets the listed status; a
\* listed pod that is not cached is returned and not stored.  listing maps
\* the listed identities to their status text.
list_pods(ps, listing) ==
    [p \in ListedOrCached(ps, listing) |->
        IF p \in DOMAIN listing
        THEN [ps[p] EXCEPT !.status = parse_pod_status(listing[p])]
        ELSE ps[p]]

\* What list_pods returns: one Pod per listed identity, in the status the
\* cached record has after the update, or running for an identity that is
\* not cached.  active_only is not read.
listed_pods(ps, listing, active_only) ==
    [p \in DOMAIN listing |->
        IF p \in DOMAIN ps THEN parse_pod_status(listing[p]) ELSE "running"]

\* The identity synthesized when the provider's output names none: a uuid,
\* which is none of the provider's identities.
LocalId(ps) == MaxPods + 1 + Cardinality(DOMAIN ps)

\* The outcome of `prime pods create`: whether the command succeeded and the
\* pod identity its output names (0 when none can be parsed).
Provisioned(ok, p) == [ok |-> ok, pod_id |-> p]

\* create_pod_from_config: the provisioning command; then the identity;
\* then the defaults of the Pod, the first of which is GPUType.UNKNOWN;
\* then a second discovery for the details, the Pod and its storing.  Every
\* exception is re-raised as RuntimeError.
create_pod_from_config(ps, inv, prime_id, out) ==
    LET create == <<Cmd("pods create", 0, prime_id)>>
    IN IF ~out.ok
       THEN [raised |-> "RuntimeError", error |-> "provisioning failed", pods |-> ps,
             issued |-> create]
       ELSE LET pod_id == IF out.pod_id # 0 THEN out.pod_id ELSE LocalId(ps)
            IN IF ~HasMember("UNKNOWN")
               THEN [raised |-> "RuntimeError", error |-> "AttributeError", pods |-> ps,
                     issued |-> create]
               ELSE [raised |-> "None", error |-> "None",
                     pods |-> (pod_id :> NewPod("creating", "None")) @@ ps,
                     issued |-> Append(create, Cmd("availability list", 0, ""))]

\* Faulty variant of HasIdentifier: an absent identifier passes.
HasIdentifierAlways(r) == TRUE

\* selected_resource.prime_id is truthy.
HasIdentifier(r) == r.prime_id # ""

\* PrimeManager.create_pod: discovery for the requested category and count
\* under the ceiling; no resource or a first resource without identifier
\* raises; otherwise the first resource's identifier is provisioned.
create_pod_by_discovery(ps, inv, gpu_type, gpu_count, max_cost, out) ==
    LET d == find_gpus(inv, gpu_type, gpu_count, max_cost, "None", FALSE)
        discovery == <<Cmd("availability list", 0, "")>>
    IN IF d.raised
       THEN [raised |-> "RuntimeError", error |-> "discovery failed", pods |-> ps,
             issued |-> discovery]
       ELSE IF d.resources = <<>>
       THEN [raised |-> "RuntimeError", error |-> "no resources", pods |-> ps,
             issued |-> discovery]
       ELSE IF ~HasIdentifier(d.resources[1])
       THEN [raised |-> "RuntimeError", error |-> "missing prime_id", pods |-> ps,
             issued |-> discovery]
       ELSE LET c == create_pod_from_config(ps, inv, d.resources[1].prime_id, out)
            IN [c EXCEPT !.issued = discovery \o @]

\* The number of terminate_pod calls made so far for pod p.
TermCount(calls, p) == IF p \in DOMAIN calls THEN calls[p] ELSE 0
CountTerminate(calls, p) == (p :> (TermCount(calls, p) + 1)) @@ calls

----------------------------------------------------------------------------
(* JobQueue                                                                *)

Init ==
    /\ max_concurrent_jobs \in 1..MaxConcurrent
    /\ jobs = <<>>
    /\ job_queue = <<>>
    /\ running_jobs = <<>>
    /\ tasks = <<>>
    /\ runners = [r \in Runners |-> [pc |-> "idle", waiting |-> {}]]
    /\ pods = <<>>
    /\ terminate_calls = <<>>
    /\ issued = <<>>
    /\ inventory = NoInventory
    /\ use_api = TRUE
    /\ returned = <<>>
    /\ request = NoRequest
    /\ call = NoCall
    /\ now = 0
    /\ alerts = <<>>
    /\ dispatched = {}
    /\ NoThreads
    /\ ret = "None"

\* The Job that add_job constructs.
NewJob ==
    [status |-> "pending", pod_id |-> 0, started_at |-> "None", completed_at |-> "None",
     error_message |-> "None", output_path |-> FALSE]

\* Faulty variant of Enqueue: the new id is put at the head of the queue.
EnqueueFront(q, j) == <<j>> \o q

\* add_job: a new pending Job, stored and appended to the queue's tail.
Enqueue(q, j) == Append(q, j)

add_job ==
    /\ Cardinality(DOMAIN jobs) < MaxJobs
    /\ LET j == Cardinality(DOMAIN jobs) + 1
       IN /\ jobs' = (j :> NewJob) @@ jobs
          /\ job_queue' = Enqueue(job_queue, j)
          /\ ret' = "Job"
    /\ UNCHANGED <<max_concurrent_jobs, running_jobs, tasks, runners, managerVars>>

----------------------------------------------------------------------------
(* _run_job: the task of one job                                           *)

\* What one uninterrupted stretch of _run_job leaves behind: the Job, the
\* pod map, the terminate_pod call counts, and where the task is suspended
\* (or that it is done).
Outcome(job, ps, calls, pc) ==
    [job |-> job, pods |-> ps, calls |-> calls, pc |-> pc]

\* Faulty variant of OnException: the error is recorded, the status is not.
OnExceptionKeepsStatus(job, msg) ==
    [job EXCEPT !.completed_at = utcnow, !.error_message = msg]

\* The handler `except Exception`: the job becomes failed, with completion
\* time and error text.
OnException(job, msg) ==
    [job EXCEPT !.status = "failed", !.completed_at = utcnow, !.error_message = msg]

\* The handler and its cleanup: a bound pod is terminated, and a failure of
\* that termination is swallowed.
HandleException(job, ps, calls, msg, cleanupOk) ==
    LET failed == OnException(job, msg)
    IN IF failed.pod_id # 0
       THEN LET tp == terminate_pod(ps, failed.pod_id, cleanupOk)
            IN Outcome(failed, tp.pods, CountTerminate(calls, failed.pod_id), "done")
       ELSE Outcome(failed, ps, calls, "done")

\* One iteration of the readiness loop: query the pod; running ends the
\* loop and the task sleeps for the job's runtime, failed raises, anything
\* else sleeps until the next poll.
PollPod(job, ps, calls, reply, cleanupOk) ==
    LET g == get_pod_status(ps, job.pod_id, StatusOutput(reply, "", "None"))
    IN IF g.raised
       THEN HandleException(job, g.pods, calls, "status query failed", cleanupOk)
       ELSE IF g.status = "running"
       THEN Outcome(job, g.pods, calls, "exec")
       ELSE IF g.status = "failed"
       THEN HandleException(job, g.pods, calls, "Pod failed to start", cleanupOk)
       ELSE Outcome(job, g.pods, calls, "poll")

\* From the task's first step to its first await.
StartJob(job, ps, calls, createOk, reply, cleanupOk) ==
    LET started == [job EXCEPT !.status = "running", !.started_at = utcnow]
        c == create_pod(ps, createOk)
    IN IF c.raised
       THEN HandleException(started, c.pods, calls, "create_pod failed", cleanupOk)
       ELSE PollPod([started EXCEPT !.pod_id = c.pod_id], c.pods, calls, reply,
                    cleanupOk)

\* After the job's runtime: completed, then the pod is terminated inside the
\* same try block, so a failure of that call reaches the handler.
FinishJob(job, ps, calls, termOk, cleanupOk) ==
    LET completed == [job EXCEPT !.status = "completed", !.completed_at = utcnow,
                                 !.output_path = TRUE]
        tp == terminate_pod(ps, job.pod_id, termOk)
        calls1 == CountTerminate(calls, job.pod_id)
    IN IF tp.raised = "None"
       THEN Outcome(completed, tp.pods, calls1, "done")
       ELSE HandleException(completed, tp.pods, calls1, "terminate_pod failed",
                            cleanupOk)

\* A task is done once its coroutine has returned or has been cancelled.
TaskIsDone(task) == task.pc \in {"done", "cancelled"}

\* Faulty variant of TaskCancel: the task is not cancelled.
TaskCancelNoop(task) == task

\* Task.cancel(): no effect on a finished task; otherwise CancelledError is
\* thrown into the coroutine when it is next resumed.
TaskCancel(task) ==
    IF TaskIsDone(task) THEN task ELSE [task EXCEPT !.pc = "cancelling"]

ApplyOutcome(t, o) ==
    /\ jobs' = [jobs EXCEPT ![tasks[t].job] = o.job]
    /\ tasks' = [tasks EXCEPT ![t].pc = o.pc]
    /\ pods' = o.pods
    /\ terminate_calls' = o.calls
    /\ UNCHANGED <<max_concurrent_jobs, job_queue, running_jobs, runners, ret, providerVars,
                   componentVars>>

TaskStart(t, createOk, reply, cleanupOk) ==
    /\ t \in DOMAIN tasks
    /\ tasks[t].pc = "created"
    /\ ApplyOutcome(t, StartJob(jobs[tasks[t].job], pods, terminate_calls, createOk,
                                reply, cleanupOk))

TaskPoll(t, reply, cleanupOk) ==
    /\ t \in DOMAIN tasks
    /\ tasks[t].pc = "poll"
    /\ ApplyOutcome(t, PollPod(jobs[tasks[t].job], pods, terminate_calls, reply,
                               cleanupOk))

TaskFinish(t, termOk, cleanupOk) ==
    /\ t \in DOMAIN tasks
    /\ tasks[t].pc = "exec"
    /\ ApplyOutcome(t, FinishJob(jobs[tasks[t].job], pods, terminate_calls, termOk,
                                 cleanupOk))

\* CancelledError is not an Exception: the handler does not run, the
\* coroutine ends and the task is done.
TaskCancelled(t) ==
    /\ t \in DOMAIN tasks
    /\ tasks[t].pc = "cancelling"
    /\ tasks' = [tasks EXCEPT ![t].pc = "cancelled"]
    /\ UNCHANGED <<max_concurrent_jobs, jobs, job_queue, running_jobs, runners, ret,
                   managerVars>>

----------------------------------------------------------------------------
(* process_all                                                             *)

\* Faulty variant of LoopCond: the registered tasks are not looked at.
LoopCondQueueOnly(q, rj) == q # <<>>

\* The outer loop runs while jobs are queued or tasks are registered.
LoopCond(q, rj) == q # <<>> \/ DOMAIN rj # {}

\* Faulty variant of CanAdmit: the comparison is off by one.
CanAdmitOffByOne(q, rj) == Cardinality(DOMAIN rj) <= max_concurrent_jobs /\ q # <<>>

\* The inner loop admits while fewer than max_concurrent_jobs tasks are
\* registered and the queue is not empty.
CanAdmit(q, rj) == Cardinality(DOMAIN rj) < max_concurrent_jobs /\ q # <<>>

\* Faulty variant of PopFront: the head is read, the last element is removed.
PopStale(q) == [job |-> Head(q), rest |-> SubSeq(q, 1, Len(q) - 1)]

\* _job_queue.pop(0): the head, and the queue without it.
PopFront(q) == [job |-> Head(q), rest |-> Tail(q)]

\* create_task(_run_job(job)): a new task, which has not started running.
NewTask(j) == [job |-> j, pc |-> "created"]

\* The inner loop: pop the head, create its task, register the task.
RECURSIVE Admit(_, _, _)
Admit(q, rj, ts) ==
    IF CanAdmit(q, rj)
    THEN LET p == PopFront(q)
         IN Admit(p.rest, (p.job :> (Len(ts) + 1)) @@ rj, Append(ts, NewTask(p.job)))
    ELSE [queue |-> q, running |-> rj, tasks |-> ts]

\* From the loop head to the point where process_all suspends in
\* asyncio.wait on the registered tasks, or returns.
RECURSIVE RunLoop(_, _, _)
RunLoop(q, rj, ts) ==
    IF ~LoopCond(q, rj)
    THEN [pc |-> "returned", waiting |-> {}, queue |-> q, running |-> rj, tasks |-> ts]
    ELSE LET a == Admit(q, rj, ts)
         IN IF DOMAIN a.running # {}
            THEN [pc |-> "waiting", waiting |-> {a.running[j] : j \in DOMAIN a.running},
                  queue |-> a.queue, running |-> a.running, tasks |-> a.tasks]
            ELSE RunLoop(a.queue, a.running, a.tasks)

\* The cleanup after asyncio.wait: the registered jobs whose task is among
\* the finished ones of the awaited set are unregistered.
Cleanup(rj, waiting, ts) ==
    LET done == {t \in waiting : TaskIsDone(ts[t])}
        keep == {j \in DOMAIN rj : rj[j] \notin done}
    IN [j \in keep |-> rj[j]]

ApplyLoop(r, l) ==
    /\ runners' = [runners EXCEPT ![r] = [pc |-> l.pc, waiting |-> l.waiting]]
    /\ job_queue' = l.queue
    /\ running_jobs' = l.running
    /\ tasks' = l.tasks
    /\ UNCHANGED <<max_concurrent_jobs, jobs, ret, managerVars>>

\* process_all is called: it runs to its first suspension, or returns.
\* Invocations are interchangeable, so a new call takes the lowest slot
\* that is not suspended.
ProcessAllCall(r) ==
    /\ runners[r].pc # "waiting"
    /\ \A k \in 1..(r - 1) : runners[k].pc = "waiting"
    /\ ApplyLoop(r, RunLoop(job_queue, running_jobs, tasks))

\* asyncio.wait returns once a task of the awaited set is done; process_all
\* cleans up and runs the loop to its next suspension, or returns.
ProcessAllResume(r) ==
    /\ runners[r].pc = "waiting"
    /\ \E t \in runners[r].waiting : TaskIsDone(tasks[t])
    /\ ApplyLoop(r, RunLoop(job_queue, Cleanup(running_jobs, runners[r].waiting, tasks),
                            tasks))

----------------------------------------------------------------------------
(* cancel_job                                                              *)

\* list.remove: the sequence without the first occurrence of j.
RECURSIVE Remove(_, _)
Remove(q, j) ==
    IF q = <<>> THEN q
    ELSE IF Head(q) = j THEN Tail(q)
    ELSE <<Head(q)>> \o Remove(Tail(q), j)

InQueue(q, j) == \E i \in 1..Len(q) : q[i] = j

\* Faulty variant of CancelBranch: every job that is not running is treated
\* as pending.
CancelBranchNotRunning(job) ==
    IF job.status = "running" THEN "running" ELSE "pending"

\* The branch taken, by the job's status.
CancelBranch(job) ==
    IF job.status = "pending" THEN "pending"
    ELSE IF job.status = "running" THEN "running"
    ELSE "none"

\* Faulty variant of CancelPendingQueue: the id stays in the queue.
CancelPendingQueueKeep(q, j) == q

\* The pending branch: the id leaves the queue.
CancelPendingQueue(q, j) == IF InQueue(q, j) THEN Remove(q, j) ELSE q

\* Both branches mark the job cancelled and stamp its completion time.
MarkCancelled(job) == [job EXCEPT !.status = "cancelled", !.completed_at = utcnow]

cancel_job(j, termOk) ==
    IF j \notin DOMAIN jobs
    THEN /\ ret' = "ValueError"
         /\ UNCHANGED <<max_concurrent_jobs, jobs, job_queue, running_jobs, tasks,
                        runners, managerVars>>
    ELSE LET job == jobs[j]
             branch == CancelBranch(job)
         IN IF branch = "pending"
            THEN /\ job_queue' = CancelPendingQueue(job_queue, j)
                 /\ jobs' = [jobs EXCEPT ![j] = MarkCancelled(job)]
                 /\ ret' = "True"
                 /\ UNCHANGED <<max_concurrent_jobs, running_jobs, tasks, runners,
                                managerVars>>
            ELSE IF branch = "running"
            THEN /\ IF j \in DOMAIN running_jobs
                    THEN /\ tasks' = [tasks EXCEPT ![running_jobs[j]] = TaskCancel(@)]
                         /\ running_jobs' =
                                [k \in DOMAIN running_jobs \ {j} |-> running_jobs[k]]
                    ELSE UNCHANGED <<tasks, running_jobs>>
                 /\ jobs' = [jobs EXCEPT ![j] = MarkCancelled(job)]
                 /\ IF job.pod_id # 0
                    THEN /\ pods' = terminate_pod(pods, job.pod_id, termOk).pods
                         /\ terminate_calls' = CountTerminate(terminate_calls, job.pod_id)
                         /\ UNCHANGED <<providerVars, componentVars>>
                    ELSE UNCHANGED managerVars
                 /\ ret' = "True"
                 /\ UNCHANGED <<max_concurrent_jobs, job_queue, runners>>
            ELSE /\ ret' = "False"
                 /\ UNCHANGED <<max_concurrent_jobs, jobs, job_queue, running_jobs,
                                tasks, runners, managerVars>>

----------------------------------------------------------------------------
(* The queue as a state machine                                            *)

\* The environment's answers are drawn where the code asks for them: the
\* status reply once the pod is created, the outcome of the cleanup
\* termination once the handler reaches it with a pod bound, the outcome of
\* cancel_job's termination when the job is running with a pod bound.
RepliesAfter(createOk) == IF createOk THEN StatusReplies ELSE {"creating"}

CleanupAfter(reached) == IF reached THEN BOOLEAN ELSE {TRUE}

CancelTerminates(j) ==
    /\ j \in DOMAIN jobs
    /\ jobs[j].status = "running"
    /\ jobs[j].pod_id # 0

AddJob == add_job

CancelJob ==
    \E j \in JobIds :
        \E termOk \in CleanupAfter(CancelTerminates(j)) : cancel_job(j, termOk)

ProcessAllStart == \E r \in Runners : ProcessAllCall(r)

ProcessAllWake == \E r \in Runners : ProcessAllResume(r)

RunJobStart ==
    \E t \in DOMAIN tasks, createOk \in BOOLEAN :
        \E reply \in RepliesAfter(createOk) :
            \E cleanupOk \in CleanupAfter(createOk /\ reply = "failed") :
                TaskStart(t, createOk, reply, cleanupOk)

RunJobPoll ==
    \E t \in DOMAIN tasks, reply \in StatusReplies :
        \E cleanupOk \in CleanupAfter(reply = "failed") : TaskPoll(t, reply, cleanupOk)

RunJobFinish ==
    \E t \in DOMAIN tasks, termOk \in BOOLEAN :
        \E cleanupOk \in CleanupAfter(~termOk) : TaskFinish(t, termOk, cleanupOk)

RunJobCancelled == \E t \in DOMAIN tasks : TaskCancelled(t)

Next ==
    \/ AddJob
    \/ CancelJob
    \/ ProcessAllStart
    \/ ProcessAllWake
    \/ RunJobStart
    \/ RunJobPoll
    \/ RunJobFinish
    \/ RunJobCancelled

Spec == Init /\ [][Next]_vars

\* Fair scheduling by the event loop: a coroutine that can resume is
\* resumed; and every started task finishes: its pod eventually reports
\* running or failed.
RunJobPollExit ==
    \E t \in DOMAIN tasks, reply \in StatusReplies :
        \E cleanupOk \in CleanupAfter(reply = "failed") :
            TaskPoll(t, reply, cleanupOk) /\ tasks'[t].pc # "poll"

Fairness ==
    /\ \A r \in Runners : WF_vars(ProcessAllResume(r))
    /\ WF_vars(RunJobStart)
    /\ SF_vars(RunJobPollExit)
    /\ WF_vars(RunJobFinish)
    /\ WF_vars(RunJobCancelled)

FairSpec == Spec /\ Fairness

\* Fair scheduling alone: a coroutine that can resume is resumed; what the
\* pod reports is left to the provider.  A poll that finds the pod neither
\* running nor failed changes nothing, so a task that is woken and polls
\* again for ever shows as a behaviour that stays in the readiness loop.
SchedulingFairness ==
    /\ \A r \in Runners : WF_vars(ProcessAllResume(r))
    /\ WF_vars(RunJobStart)
    /\ WF_vars(RunJobFinish)
    /\ WF_vars(RunJobCancelled)

ScheduledSpec == Spec /\ SchedulingFairness

----------------------------------------------------------------------------
(* PrimeManager called directly                                            *)

\* Faulty variant of IsRunning: a pod being created counts as running.
IsRunningOrCreating(st) == st \in {"running", "creating"}

\* pod.status == PodStatus.RUNNING
IsRunning(st) == st = "running"

\* ssh_to_pod: the status is refreshed first; a pod that is then not running
\* raises; an interactive call runs `prime pods ssh`; a non-interactive one
\* returns the cached endpoint, or a constructed command when there is none.
\* Every exception is re-raised as RuntimeError.
ssh_to_pod(ps, p, interactive, out) ==
    LET g == get_pod_status(ps, p, out)
        query == <<Cmd("pods status", p, "")>>
    IN IF g.raised
       THEN [raised |-> "RuntimeError", value |-> "no cached data", pods |-> g.pods,
             issued |-> query]
       ELSE IF ~IsRunning(g.status)
       THEN [raised |-> "RuntimeError", value |-> "not running", pods |-> g.pods,
             issued |-> query]
       ELSE IF interactive
       THEN [raised |-> "None", value |-> "session completed", pods |-> g.pods,
             issued |-> Append(query, Cmd("pods ssh", p, ""))]
       ELSE IF g.pods[p].ssh_connection # "None"
       THEN [raised |-> "None", value |-> g.pods[p].ssh_connection, pods |-> g.pods,
             issued |-> query]
       ELSE [raised |-> "None", value |-> "prime pods ssh", pods |-> g.pods,
             issued |-> query]

\* What a call made on the manager gave back: the operation, the exception
\* raised ("None" if it returned) and the value returned or the error.
Result(op, raised, value) == [op |-> op, raised |-> raised, value |-> value]

\* The state of a JobQueue that is not used.
queueState == <<max_concurrent_jobs, jobs, job_queue, running_jobs, tasks, runners>>

\* What `prime pods status` may answer: any status text, a recognised GPU
\* text or none, a connection endpoint or none; or the command fails.
StatusTexts == PodStatus \cup {"unknown"}

\* The GPU text is read only when a record is built for an uncached pod.
GpuTexts(p) == IF p \in DOMAIN pods THEN {""} ELSE {"H100_80GB", ""}

StatusOutputs(p) ==
    {StatusOutput(st, gpu, ssh) :
        st \in StatusTexts, gpu \in GpuTexts(p), ssh \in {"None", "ssh1"}}
    \cup {StatusOutput("error", "", "None")}

\* What `prime pods list` may answer: a status text for each listed pod.
Listings == UNION {[S -> StatusTexts] : S \in SUBSET PodIds}

\* The availability the provider shows while pods are managed: one offer
\* of the requested category in the table, no structured source.
SampleInventory ==
    [api |-> Source(FALSE, <<>>),
     cli |-> Source(TRUE, <<Resource("H100_80GB", 1, 2, "aws", "c2")>>)]

ManagerInit ==
    /\ max_concurrent_jobs = 1
    /\ jobs = <<>>
    /\ job_queue = <<>>
    /\ running_jobs = <<>>
    /\ tasks = <<>>
    /\ runners = [r \in Runners |-> [pc |-> "idle", waiting |-> {}]]
    /\ pods = <<>>
    /\ terminate_calls = <<>>
    /\ issued = <<>>
    /\ inventory = SampleInventory
    /\ use_api = TRUE
    /\ returned = <<>>
    /\ request = NoRequest
    /\ call = NoCall
    /\ now = 0
    /\ alerts = <<>>
    /\ dispatched = {}
    /\ NoThreads
    /\ ret = Result("None", "None", "None")

GetPodStatus(p, out) ==
    LET g == get_pod_status(pods, p, out)
    IN /\ pods' = g.pods
       /\ issued' = <<Cmd("pods status", p, "")>>
       /\ ret' = IF g.raised
                 THEN Result("get_pod_status", "RuntimeError", "no cached data")
                 ELSE Result("get_pod_status", "None", "Pod")
       /\ returned' = <<>>
       /\ UNCHANGED <<queueState, terminate_calls, inventory, use_api, request, retryVars, monitorVars>>

ListPods(ok, listing, active_only) ==
    /\ pods' = IF ok THEN list_pods(pods, listing) ELSE pods
    /\ issued' = <<Cmd("pods list", 0, "")>>
    /\ ret' = IF ok
              THEN Result("list_pods", "None", "List")
              ELSE Result("list_pods", "RuntimeError", "Failed to list pods")
    /\ returned' = IF ok THEN listed_pods(pods, listing, active_only) ELSE <<>>
    /\ UNCHANGED <<queueState, terminate_calls, inventory, use_api, request, retryVars, monitorVars>>

TerminatePod(p, ok) ==
    LET t == terminate_pod(pods, p, ok)
    IN /\ pods' = t.pods
       /\ issued' = t.issued
       /\ ret' = IF t.raised = "None"
                 THEN Result("terminate_pod", "None", "True")
                 ELSE Result("terminate_pod", t.raised, "None")
       /\ returned' = <<>>
       /\ UNCHANGED <<queueState, terminate_calls, inventory, use_api, request, retryVars, monitorVars>>

SshToPod(p, interactive, out) ==
    LET c == ssh_to_pod(pods, p, interactive, out)
    IN /\ pods' = c.pods
       /\ issued' = c.issued
       /\ ret' = Result("ssh_to_pod", c.raised, c.value)
       /\ returned' = <<>>
       /\ UNCHANGED <<queueState, terminate_calls, inventory, use_api, request, retryVars, monitorVars>>

\* The category and count asked for, and the ceilings tried.
RequestedType == "H100_80GB"

Ceilings == {NoCeiling, 1}

ProvisionOutcomes == {Provisioned(FALSE, 0)} \cup {Provisioned(TRUE, p) : p \in 0..MaxPods}

CreatePod(max_cost, out) ==
    LET c == create_pod_by_discovery(pods, Consulted(inventory, use_api), RequestedType, 1,
                                     max_cost, out)
    IN /\ pods' = c.pods
       /\ issued' = c.issued
       /\ ret' = Result("create_pod", c.raised, IF c.raised = "None" THEN "Pod" ELSE c.error)
       /\ returned' = <<>>
       /\ UNCHANGED <<queueState, terminate_calls, inventory, use_api, request, retryVars, monitorVars>>

ManagerGetPodStatus == \E p \in PodIds : \E out \in StatusOutputs(p) : GetPodStatus(p, out)

ManagerListPods ==
    \/ \E listing \in Listings, active_only \in BOOLEAN : ListPods(TRUE, listing, active_only)
    \/ ListPods(FALSE, <<>>, TRUE)

ManagerTerminatePod == \E p \in PodIds, ok \in BOOLEAN : TerminatePod(p, ok)

ManagerSshToPod ==
    \E p \in PodIds, interactive \in BOOLEAN :
        \E out \in StatusOutputs(p) : SshToPod(p, interactive, out)

ManagerCreatePod == \E max_cost \in Ceilings, out \in ProvisionOutcomes : CreatePod(max_cost, out)

ManagerNext ==
    \/ ManagerGetPodStatus
    \/ ManagerListPods
    \/ ManagerTerminatePod
    \/ ManagerSshToPod
    \/ ManagerCreatePod

ManagerSpec == ManagerInit /\ [][ManagerNext]_vars

----------------------------------------------------------------------------
(* create_pod over a changing inventory                                    *)

\* The sequences over S of at most n elements.
SeqsUpTo(S, n) == UNION {[1..k -> S] : k \in 0..n}

\* Rows the availability table may show: offers of the requested category
\* at two prices and for free, with or without an identifier, an offer of
\* another category, and a row whose GPU text is not the spelling of any
\* member.
TableRows ==
    {Resource("H100_80GB", 1, 1, "aws", "c1"),
     Resource("H100_80GB", 2, 2, "aws", "c2"),
     Resource("H100_80GB", 1, 2, "aws", ""),
     Resource("H100_80GB", 1, 0, "aws", "c0"),
     Resource("A100_80GB", 1, 1, "aws", "c3"),
     Resource("", 1, 1, "aws", "c1")}

\* Records the structured source may return: of the requested category
\* without cloudId and with, one of them free, one of a provider that the
\* table does not show; and one of another category, since nothing holds the
\* service to the gpu_type parameter.
ApiRecords ==
    {Resource("H100_80GB", 1, 1, "AWS", ""),
     Resource("H100_80GB", 2, 2, "aws", "a2"),
     Resource("H100_80GB", 1, 0, "gcp", "a0"),
     Resource("A100_80GB", 1, 1, "aws", "a1")}

DiscoveryInit ==
    /\ max_concurrent_jobs = 1
    /\ jobs = <<>>
    /\ job_queue = <<>>
    /\ running_jobs = <<>>
    /\ tasks = <<>>
    /\ runners = [r \in Runners |-> [pc |-> "idle", waiting |-> {}]]
    /\ pods = <<>>
    /\ terminate_calls = <<>>
    /\ issued = <<>>
    /\ inventory = NoInventory
    /\ use_api \in BOOLEAN
    /\ returned = <<>>
    /\ request = NoRequest
    /\ call = NoCall
    /\ now = 0
    /\ alerts = <<>>
    /\ dispatched = {}
    /\ NoThreads
    /\ ret = Result("None", "None", "None")

\* The provider's structured source changes what it answers, or fails.
ApiAnswers(src) ==
    /\ inventory' = [inventory EXCEPT !.api = src]
    /\ inventory' # inventory
    /\ UNCHANGED <<queueState, pods, terminate_calls, issued, ret, componentVars>>

\* The provider's availability table changes, or the command fails.
CliAnswers(src) ==
    /\ inventory' = [inventory EXCEPT !.cli = src]
    /\ inventory' # inventory
    /\ UNCHANGED <<queueState, pods, terminate_calls, issued, ret, componentVars>>

ApiChanges ==
    \/ \E rs \in SeqsUpTo(ApiRecords, MaxOffers) : ApiAnswers(Source(TRUE, rs))
    \/ ApiAnswers(Source(FALSE, <<>>))

CliChanges ==
    \/ \E rs \in SeqsUpTo(TableRows, MaxOffers) : CliAnswers(Source(TRUE, rs))
    \/ CliAnswers(Source(FALSE, <<>>))

DiscoveryCreatePod ==
    \E max_cost \in Ceilings, out \in ProvisionOutcomes : CreatePod(max_cost, out)

DiscoveryNext ==
    \/ ApiChanges
    \/ CliChanges
    \/ DiscoveryCreatePod

DiscoverySpec == DiscoveryInit /\ [][DiscoveryNext]_vars

----------------------------------------------------------------------------
(* find_gpus and the resource listing, over every inventory.  A behaviour  *)
(* is one request: the command line constructs a manager, discovers once  *)
(* and exits, and find_gpus keeps nothing from one call to the next.       *)

\* What the two sources may answer.
ApiSources == {Source(FALSE, <<>>)} \cup {Source(TRUE, rs) : rs \in SeqsUpTo(ApiRecords, MaxOffers)}
CliSources == {Source(FALSE, <<>>)} \cup {Source(TRUE, rs) : rs \in SeqsUpTo(TableRows, MaxOffers)}

FindInit ==
    /\ max_concurrent_jobs = 1
    /\ jobs = <<>>
    /\ job_queue = <<>>
    /\ running_jobs = <<>>
    /\ tasks = <<>>
    /\ runners = [r \in Runners |-> [pc |-> "idle", waiting |-> {}]]
    /\ pods = <<>>
    /\ terminate_calls = <<>>
    /\ issued = <<>>
    /\ inventory \in [api : ApiSources, cli : CliSources]
    /\ use_api \in BOOLEAN
    /\ returned = <<>>
    /\ request = NoRequest
    /\ call = NoCall
    /\ now = 0
    /\ alerts = <<>>
    /\ dispatched = {}
    /\ NoThreads
    /\ ret = Result("None", "None", "None")

\* The requests made of find_gpus.
Categories == {"None", RequestedType}
MinCounts == {1, 2}
FindCeilings == {NoCeiling, 0, 1}

FindGpus(gpu_type, min_count, max_cost, include_free) ==
    LET d == find_gpus(Consulted(inventory, use_api), gpu_type, min_count, max_cost,
                       "None", include_free)
    IN /\ ret.op = "None"
       /\ returned' = d.resources
       /\ issued' = <<Cmd("availability list", 0, "")>>
       /\ ret' = IF d.raised
                 THEN Result("find_gpus", "RuntimeError", "Failed to get GPU data")
                 ELSE Result("find_gpus", "None", "List")
       /\ UNCHANGED <<queueState, pods, terminate_calls, inventory, use_api, request, retryVars,
                      monitorVars>>

AnyFindGpus ==
    \E gpu_type \in Categories, min_count \in MinCounts, max_cost \in FindCeilings,
       include_free \in BOOLEAN :
        FindGpus(gpu_type, min_count, max_cost, include_free)

\* cli.py, list_resources: the options of the listing.  No floor and no
\* minimum are None.
NoFloor == -1
NoMinimum == -1
SortKeys == {"cost", "availability", "provider"}
Limits == (0 - 1)..MaxOffers

\* The order of str on the provider names that occur.
ProviderRank == ("AWS" :> 1) @@ ("aws" :> 2) @@ ("gcp" :> 3)

\* The key of the sort selected by --sort-by.
SortKey(r, sort_by) ==
    IF sort_by = "cost" THEN r.cost_per_hour
    ELSE IF sort_by = "availability" THEN r.available_count
    ELSE ProviderRank[r.provider]

\* Faulty variant of StaysBefore: an equal key does not keep its place.
StaysBeforeStrict(y, x, sort_by, reverse) ==
    IF reverse
    THEN SortKey(y, sort_by) > SortKey(x, sort_by)
    ELSE SortKey(y, sort_by) < SortKey(x, sort_by)

\* list.sort is stable, also with reverse=True: y, which came earlier than
\* x, stays before x unless x's key strictly precedes y's.
StaysBefore(y, x, sort_by, reverse) ==
    IF reverse
    THEN SortKey(y, sort_by) >= SortKey(x, sort_by)
    ELSE SortKey(y, sort_by) <= SortKey(x, sort_by)

RECURSIVE InsertSorted(_, _, _, _)
InsertSorted(x, ys, sort_by, reverse) ==
    IF ys = <<>> THEN <<x>>
    ELSE IF StaysBefore(Head(ys), x, sort_by, reverse)
    THEN <<Head(ys)>> \o InsertSorted(x, Tail(ys), sort_by, reverse)
    ELSE <<x>> \o ys

\* resources.sort(key=..., reverse=reverse).
RECURSIVE Sort(_, _, _)
Sort(xs, sort_by, reverse) ==
    IF xs = <<>> THEN <<>>
    ELSE InsertSorted(xs[Len(xs)], Sort(SubSeq(xs, 1, Len(xs) - 1), sort_by, reverse),
                      sort_by, reverse)

\* if limit > 0: resources = resources[:limit].
Truncate(xs, limit) ==
    IF limit > 0 THEN SubSeq(xs, 1, IF limit < Len(xs) THEN limit ELSE Len(xs)) ELSE xs

\* The additional local filters of the listing.
ListingFilters(xs, min_cost, min_availability) ==
    SelectSeq(xs, LAMBDA r :
        /\ min_cost = NoFloor \/ r.cost_per_hour >= min_cost
        /\ min_availability = NoMinimum \/ r.available_count >= min_availability)

\* list_resources: discovery, the additional filters, the sort, the limit.
\* A failing discovery shows an error and no listing.  The options handed on
\* to find_gpus (type, count, ceiling, region, provider) keep their defaults.
list_resources(inv, include_free, min_cost, min_availability, sort_by, sort_desc, limit) ==
    LET d == find_gpus(inv, "None", 1, NoCeiling, "None", include_free)
    IN IF d.raised
       THEN [raised |-> TRUE, resources |-> <<>>]
       ELSE [raised |-> FALSE,
             resources |-> Truncate(Sort(ListingFilters(d.resources, min_cost,
                                                        min_availability),
                                         sort_by, sort_desc),
                                    limit)]

ListResources(include_free, min_cost, min_availability, sort_by, sort_desc, limit) ==
    LET l == list_resources(Consulted(inventory, use_api), include_free, min_cost,
                            min_availability, sort_by, sort_desc, limit)
    IN /\ ret.op = "None"
       /\ request' = [command |-> "resources list", include_free |-> include_free,
                      min_cost |-> min_cost, min_availability |-> min_availability,
                      sort_by |-> sort_by, sort_desc |-> sort_desc, limit |-> limit]
       /\ returned' = l.resources
       /\ issued' = <<Cmd("availability list", 0, "")>>
       /\ ret' = IF l.raised
                 THEN Result("list_resources", "Error", "None")
                 ELSE Result("list_resources", "None", "Table")
       /\ UNCHANGED <<queueState, pods, terminate_calls, inventory, use_api, retryVars,
                      monitorVars>>

AnyListResources ==
    \E include_free \in BOOLEAN, min_cost \in {NoFloor, 2}, min_availability \in {NoMinimum, 2},
       sort_by \in SortKeys, sort_desc \in BOOLEAN, limit \in Limits :
        ListResources(include_free, min_cost, min_availability, sort_by, sort_desc, limit)

FindNext ==
    \/ AnyFindGpus
    \/ AnyListResources

FindSpec == FindInit /\ [][FindNext]_vars

----------------------------------------------------------------------------
(* External calls: _run_prime_command and _make_request_with_retry         *)

\* manager.py: max_retries = 3 if retry_on_rate_limit else 1, the number of
\* attempts; the delays 2**attempt and 5 * (2**attempt).
CliMaxRetries == 3
CliTimeoutBase == 1
CliRateLimitBase == 5

\* api_client.py: max_retries = 3 retries after the first attempt,
\* base_delay = 1.0.
ApiMaxRetries == 3
ApiBaseDelay == 1

RECURSIVE Pow2(_)
Pow2(k) == IF k = 0 THEN 1 ELSE 2 * Pow2(k - 1)

\* What one subprocess.run may do: return, raise FileNotFoundError, raise
\* TimeoutExpired, or raise CalledProcessError with some stderr text.
CliStderr == {"", "Unauthorized", "429", "Unauthorized 429", "No GPU resources found", "boom"}

CliOutcomes ==
    {[kind |-> k, stderr |-> ""] : k \in {"ok", "FileNotFoundError", "TimeoutExpired"}}
        \cup {[kind |-> "CalledProcessError", stderr |-> t] : t \in CliStderr}

\* "Unauthorized" in error_msg or "authentication" in error_msg.lower().
MentionsAuth(t) == t \in {"Unauthorized", "Unauthorized 429"}

\* "429" in error_msg or "Too Many Requests" in error_msg or "rate limit" in
\* error_msg.lower().
MentionsRateLimit(t) == t \in {"429", "Unauthorized 429"}

\* What one session.get may do: return, raise Timeout, raise HTTPError with
\* a status code, or raise another RequestException.
ApiOutcomes ==
    {[kind |-> k, status |-> 0] : k \in {"ok", "Timeout", "ConnectionError"}}
        \cup {[kind |-> "HTTPError", status |-> c] : c \in {429, 401, 500}}

\* A call that starts: no attempt made, nothing slept.
NewCall(client, retry_on_rate_limit) ==
    [client |-> client, retry_on_rate_limit |-> retry_on_rate_limit, attempt |-> 0,
     tried |-> <<>>, slept |-> <<>>, state |-> "running", error |-> "None"]

Return(c, o) == [c EXCEPT !.tried = Append(@, o), !.state = "returned"]

Raise(c, o, error) == [c EXCEPT !.tried = Append(@, o), !.state = "raised", !.error = error]

\* time.sleep(delay); continue.
SleepAndRetry(c, o, delay) ==
    [c EXCEPT !.tried = Append(@, o), !.slept = Append(@, delay), !.attempt = @ + 1]

\* Faulty variant of CliMayRetry: the last attempt is retried too.
CliMayRetryOnceMore(c) ==
    c.attempt < (IF c.retry_on_rate_limit THEN CliMaxRetries ELSE 1)

\* attempt < max_retries - 1.
CliMayRetry(c) ==
    c.attempt < (IF c.retry_on_rate_limit THEN CliMaxRetries ELSE 1) - 1

\* Faulty variant of IsRetryableStatus: server errors are retried too.
IsRetryableStatusOrServerError(status) == status \in {429, 500}

\* e.response.status_code == 429.
IsRetryableStatus(status) == status = 429

\* One iteration of the loop of _run_prime_command.
run_prime_attempt(c, o) ==
    IF o.kind = "ok" THEN Return(c, o)
    ELSE IF o.kind = "FileNotFoundError" THEN Raise(c, o, "not installed")
    ELSE IF o.kind = "TimeoutExpired"
    THEN IF CliMayRetry(c)
         THEN SleepAndRetry(c, o, CliTimeoutBase * Pow2(c.attempt))
         ELSE Raise(c, o, "timed out")
    ELSE IF o.stderr = "" THEN Raise(c, o, "command failed")
    ELSE IF MentionsAuth(o.stderr) THEN Raise(c, o, "not authenticated")
    ELSE IF MentionsRateLimit(o.stderr)
    THEN IF CliMayRetry(c) /\ c.retry_on_rate_limit
         THEN SleepAndRetry(c, o, CliRateLimitBase * Pow2(c.attempt))
         ELSE Raise(c, o, "rate limit exceeded")
    ELSE IF o.stderr = "No GPU resources found" THEN Raise(c, o, "no resources found")
    ELSE Raise(c, o, "command failed")

\* One iteration of the loop of _make_request_with_retry.
make_request_attempt(c, o) ==
    IF o.kind = "ok" THEN Return(c, o)
    ELSE IF o.kind = "HTTPError"
    THEN IF IsRetryableStatus(o.status)
         THEN IF c.attempt < ApiMaxRetries
              THEN SleepAndRetry(c, o, ApiBaseDelay * Pow2(c.attempt))
              ELSE Raise(c, o, "rate limit exceeded")
         ELSE IF o.status = 401 THEN Raise(c, o, "not authenticated")
         ELSE Raise(c, o, "request failed")
    ELSE IF o.kind = "Timeout"
    THEN IF c.attempt < ApiMaxRetries
         THEN SleepAndRetry(c, o, ApiBaseDelay * Pow2(c.attempt))
         ELSE Raise(c, o, "timed out")
    ELSE Raise(c, o, "request failed")

RetryInit ==
    /\ max_concurrent_jobs = 1
    /\ jobs = <<>>
    /\ job_queue = <<>>
    /\ running_jobs = <<>>
    /\ tasks = <<>>
    /\ runners = [r \in Runners |-> [pc |-> "idle", waiting |-> {}]]
    /\ pods = <<>>
    /\ terminate_calls = <<>>
    /\ issued = <<>>
    /\ inventory = NoInventory
    /\ use_api = TRUE
    /\ returned = <<>>
    /\ request = NoRequest
    /\ call = NoCall
    /\ now = 0
    /\ alerts = <<>>
    /\ dispatched = {}
    /\ NoThreads
    /\ ret = Result("None", "None", "None")

InProgress == call.client # "None" /\ call.state = "running"

retryFrame == <<queueVars, pods, terminate_calls, providerVars, discoveryVars, monitorVars>>

\* A command is run, or a request made, once the previous call is over.
StartCall(client, retry_on_rate_limit) ==
    /\ ~InProgress
    /\ call' = NewCall(client, retry_on_rate_limit)
    /\ UNCHANGED retryFrame

CliAttempt(o) ==
    /\ InProgress /\ call.client = "cli"
    /\ call' = run_prime_attempt(call, o)
    /\ UNCHANGED retryFrame

ApiAttempt(o) ==
    /\ InProgress /\ call.client = "api"
    /\ call' = make_request_attempt(call, o)
    /\ UNCHANGED retryFrame

StartCliCall == \E retry_on_rate_limit \in BOOLEAN : StartCall("cli", retry_on_rate_limit)

StartApiCall == StartCall("api", TRUE)

CliAttempts == \E o \in CliOutcomes : CliAttempt(o)

ApiAttempts == \E o \in ApiOutcomes : ApiAttempt(o)

RetryNext ==
    \/ StartCliCall
    \/ StartApiCall
    \/ CliAttempts
    \/ ApiAttempts

RetrySpec == RetryInit /\ [][RetryNext]_vars

\* An attempt that is started gets its outcome: subprocess.run has a
\* timeout of 60 seconds and session.get one of 30.
RetryFairness == WF_vars(CliAttempts) /\ WF_vars(ApiAttempts)

FairRetrySpec == RetrySpec /\ RetryFairness

----------------------------------------------------------------------------
(* ResourceMonitor (monitor.py): the alerts and the monitor loop            *)

\* timedelta(hours=1); the clock counts half hours.
Hour == 2

\* Alert.last_triggered of an alert that has not fired is None.
Never == -1

AlertIds == 0..(MaxAlerts - 1)

\* Alert(id=..., name=..., ...): active, not yet triggered.
NewAlert == [is_active |-> TRUE, last_triggered |-> Never]

\* The result of a call on the monitor carries the ids of the alerts it
\* answers with: the alert added, the alert removed, the alerts whose
\* condition held.
MonitorInit ==
    /\ max_concurrent_jobs = 1
    /\ jobs = <<>>
    /\ job_queue = <<>>
    /\ running_jobs = <<>>
    /\ tasks = <<>>
    /\ runners = [r \in Runners |-> [pc |-> "idle", waiting |-> {}]]
    /\ pods = <<>>
    /\ terminate_calls = <<>>
    /\ issued = <<>>
    /\ inventory = NoInventory
    /\ use_api = TRUE
    /\ returned = <<>>
    /\ request = NoRequest
    /\ call = NoCall
    /\ now = 0
    /\ alerts = <<>>
    /\ dispatched = {}
    /\ NoThreads
    /\ ret = Result("None", "None", {})

monitorFrame ==
    <<queueState, pods, terminate_calls, providerVars, discoveryVars, retryVars, threadVars>>

\* add_alert: the id is "alert-<number of registered alerts>"; the new alert
\* is stored under it, in the place of an alert that has that id already.
AddAlert ==
    LET id == Cardinality(DOMAIN alerts)
    IN /\ id < MaxAlerts
       /\ alerts' = [a \in DOMAIN alerts \cup {id} |-> IF a = id THEN NewAlert ELSE alerts[a]]
       /\ ret' = Result("add_alert", "None", {id})
       /\ UNCHANGED <<now, dispatched, monitorFrame>>

\* remove_alert.
RemoveAlert(alert_id) ==
    /\ alerts' = IF alert_id \in DOMAIN alerts
                 THEN [a \in DOMAIN alerts \ {alert_id} |-> alerts[a]]
                 ELSE alerts
    /\ ret' = Result("remove_alert", "None", {alert_id} \cap DOMAIN alerts)
    /\ UNCHANGED <<now, dispatched, monitorFrame>>

\* The caller of add_alert holds the Alert and sets its is_active field.
SetActive(alert_id, flag) ==
    /\ alert_id \in DOMAIN alerts
    /\ alerts' = [alerts EXCEPT ![alert_id].is_active = flag]
    /\ ret' = Result("is_active", "None", {alert_id})
    /\ UNCHANGED <<now, dispatched, monitorFrame>>

\* Faulty variant of RecentlyTriggered: the window is half an hour short.
RecentlyTriggeredShortWindow(alert, at) ==
    /\ alert.last_triggered # Never
    /\ at - alert.last_triggered < Hour - 1

\* _trigger_alert, the test against spam: the alert has fired, less than an
\* hour before.
RecentlyTriggered(alert, at) ==
    /\ alert.last_triggered # Never
    /\ at - alert.last_triggered < Hour

\* _check_alerts reaches _trigger_alert for the alert and _trigger_alert does
\* not return early.  holds are the alerts whose condition evaluates to true.
Triggers(a, holds) ==
    /\ alerts[a].is_active
    /\ a \in holds
    /\ ~RecentlyTriggered(alerts[a], now)

\* One turn of _monitor_loop: get_team_usage, then _check_alerts over every
\* alert.  An exception of get_team_usage is printed and ends the turn.  The
\* result keeps the alerts whose condition held.
Tick(usage_ok, holds) ==
    LET firing == IF usage_ok THEN {a \in DOMAIN alerts : Triggers(a, holds)} ELSE {}
    IN /\ alerts' = [a \in DOMAIN alerts |->
                        IF a \in firing
                        THEN [alerts[a] EXCEPT !.last_triggered = now]
                        ELSE alerts[a]]
       /\ dispatched' = firing
       /\ ret' = Result("tick", IF usage_ok THEN "None" ELSE "RuntimeError", holds)
       /\ UNCHANGED <<now, monitorFrame>>

\* Time passes: time.sleep(check_interval), or the callers take their time.
ClockAdvances ==
    /\ now < MaxTime
    /\ now' = now + 1
    /\ UNCHANGED <<alerts, dispatched, ret, monitorFrame>>

RemoveAnyAlert == \E alert_id \in AlertIds : RemoveAlert(alert_id)

SetAnyActive == \E alert_id \in AlertIds, flag \in BOOLEAN : SetActive(alert_id, flag)

MonitorTick == \E usage_ok \in BOOLEAN, holds \in SUBSET AlertIds : Tick(usage_ok, holds)

MonitorNext ==
    \/ AddAlert
    \/ RemoveAnyAlert
    \/ SetAnyActive
    \/ MonitorTick
    \/ ClockAdvances

MonitorSpec == MonitorInit /\ [][MonitorNext]_vars

----------------------------------------------------------------------------
(* The inventory normalizer: to_gpu_resources (api_client.py) for the       *)
(* structured records, parse_availability_table (parser.py) and the         *)
(* conversion loop of find_gpus for the table text                          *)

\* A key that the record does not have, and a key whose value is null.
Absent == "absent"
Null == "null"

\* api_client.py, map_gpu_type: the attribute of GPUType it evaluates for a
\* type name: the member of that value, GPUType.H100_40GB for an H100 name
\* with 40 in it, GPUType.UNKNOWN for a name it does not recognise.
ApiTypeNames == {"H100_80GB", "H100 40GB", "FOO"}

map_gpu_type(name) ==
    IF name \in GPUType THEN name
    ELSE IF name = "H100 40GB" THEN "H100_40GB"
    ELSE "UNKNOWN"

\* The structured records as the service sends them; a value is the JSON
\* text of the number.
RawRecords ==
    [type : ApiTypeNames, price : {Absent, Null, "2"},
     stockStatus : {Absent, Null, "available", "low"}, gpuCount : {Absent, Null, "4"}]

\* The number of a JSON text.
JsonNumber(text) == IF text = "4" THEN 4 ELSE 2

\* item.get("gpuCount", default) is None only for a null value: the
\* default stands for a missing key.
CountIsNone(item) == item.gpuCount = Null

\* item.get("gpuCount", 1) where it is a number.
GpuCount(item) == IF item.gpuCount = Absent THEN 1 ELSE JsonNumber(item.gpuCount)

\* available, by stock status, where gpuCount is no None.
Available(item) ==
    IF item.stockStatus = "available" THEN GpuCount(item)
    ELSE IF item.stockStatus = "low"
    THEN IF GpuCount(item) \div 4 > 1 THEN GpuCount(item) \div 4 ELSE 1
    ELSE 0

\* The exception that the conversion of one structured record raises: the
\* attribute of GPUType is no member; a null stock status has no lower();
\* None // 4 is a TypeError; GPUResource takes no None for a count.
ItemRaises(item) ==
    IF ~HasMember(map_gpu_type(item.type)) THEN "AttributeError"
    ELSE IF item.stockStatus = Null THEN "AttributeError"
    ELSE IF item.stockStatus = "low" /\ CountIsNone(item) THEN "TypeError"
    ELSE IF CountIsNone(item) THEN "ValidationError"
    ELSE "None"

\* The resource of a structured record whose conversion raises nothing; the
\* total is gpuCount, or available for a missing key.
ConvertItem(item) ==
    Resource(map_gpu_type(item.type), Available(item),
             IF item.price \in {Absent, Null} THEN 0 ELSE JsonNumber(item.price),
             "aws", "")

\* to_gpu_resources: the loop has no handler; the first exception ends it
\* and the call.
RECURSIVE to_gpu_resources(_, _)
to_gpu_resources(items, acc) ==
    IF items = <<>>
    THEN [raised |-> "None", resources |-> acc]
    ELSE IF ItemRaises(Head(items)) # "None"
    THEN [raised |-> ItemRaises(Head(items)), resources |-> <<>>]
    ELSE to_gpu_resources(Tail(items), Append(acc, ConvertItem(Head(items))))

\* parser.py, map_gpu_type: the text it gives for the GPU column: a
\* category name (a member's or not), 'UNKNOWN', or None (here "") for an
\* RTX card that is no 8GB one.
TableTypeTexts == {"H100_80GB", "Tesla", "RTX 3060 12GB"}

TableTypeOf(text) ==
    IF text = "H100_80GB" THEN "H100_80GB"
    ELSE IF text = "RTX 3060 12GB" THEN ""
    ELSE "UNKNOWN"

\* The rows of the table text: with all twelve columns or fewer, the count
\* and the price well-formed or not, in stock or not.
FullRow == 12
RawRows ==
    [cells : {FullRow, 5}, gpu : TableTypeTexts, count : {"2", "x"}, price : {"$2", "n/a"},
     status : {"Available", "Low"}]

\* safe_int(main_line[2], 1).
SafeCount(text) == IF text = "2" THEN 2 ELSE 1

\* The first number in the price text, else 0.0.
PriceOf(text) == IF text = "$2" THEN 2 ELSE 0

\* 'ava' in status.lower() or 'med' in status.lower().
InStock(status) == status = "Available"

\* parse_multiline_resource: None for a short row.
RECURSIVE ParseRows(_)
ParseRows(rows) ==
    IF rows = <<>> THEN <<>>
    ELSE LET r == Head(rows)
         IN IF r.cells < FullRow
            THEN ParseRows(Tail(rows))
            ELSE <<Resource(TableTypeOf(r.gpu),
                            IF InStock(r.status) THEN SafeCount(r.count) ELSE 0,
                            PriceOf(r.price), "aws", "c1")>> \o ParseRows(Tail(rows))

\* parse_availability_table: nothing without the marker of the data section.
parse_availability_table(text) == IF text.marked THEN ParseRows(text.rows) ELSE <<>>

\* The table text, then the conversion loop of find_gpus with no category
\* asked for and no ceiling.  The exception of a row leaves the loop.
ConvertTable(text) ==
    LET c == CliLoop(parse_availability_table(text), <<>>, "None", 1, NoCeiling)
    IN [raised |-> IF c.raised THEN "AttributeError" ELSE "None", resources |-> c.resources]

\* The raw inputs, of either shape.
RawInputs ==
    [command : {"structured"}, records : SeqsUpTo(RawRecords, MaxOffers)]
        \cup [command : {"table"}, marked : BOOLEAN, rows : SeqsUpTo(RawRows, MaxOffers)]

NormalizeInit ==
    /\ max_concurrent_jobs = 1
    /\ jobs = <<>>
    /\ job_queue = <<>>
    /\ running_jobs = <<>>
    /\ tasks = <<>>
    /\ runners = [r \in Runners |-> [pc |-> "idle", waiting |-> {}]]
    /\ pods = <<>>
    /\ terminate_calls = <<>>
    /\ issued = <<>>
    /\ inventory = NoInventory
    /\ use_api = TRUE
    /\ returned = <<>>
    /\ request \in RawInputs
    /\ call = NoCall
    /\ now = 0
    /\ alerts = <<>>
    /\ dispatched = {}
    /\ NoThreads
    /\ ret = Result("None", "None", "None")

normalizeFrame ==
    <<queueState, pods, terminate_calls, providerVars, use_api, request, retryVars, monitorVars>>

NormalizeStructured ==
    /\ ret.op = "None"
    /\ request.command = "structured"
    /\ LET n == to_gpu_resources(request.records, <<>>)
       IN /\ returned' = n.resources
          /\ ret' = Result("to_gpu_resources", n.raised, "None")
    /\ UNCHANGED normalizeFrame

NormalizeTable ==
    /\ ret.op = "None"
    /\ request.command = "table"
    /\ LET n == ConvertTable(request)
       IN /\ returned' = n.resources
          /\ ret' = Result("parse_availability_table", n.raised, "None")
    /\ UNCHANGED normalizeFrame

NormalizeNext ==
    \/ NormalizeStructured
    \/ NormalizeTable

NormalizeSpec == NormalizeInit /\ [][NormalizeNext]_vars

----------------------------------------------------------------------------
(* The background loop of ResourceMonitor: start(), stop() and              *)
(* _monitor_loop.  The threads run under the interpreter's lock: a step is  *)
(* one read or one write of an attribute, and the steps of the threads      *)
(* interleave in any order.                                                 *)

Callers == 1..NumCallers

Idle == [pc |-> "idle", thread |-> 0]

\* The loops that are started and have not left the while.
Running == {t \in DOMAIN loops : loops[t] \in {"check", "tick", "sleep"}}

\* The start() calls that have yet to make their thread.
Starting == {c \in DOMAIN callers : callers[c].pc \in {"start_set", "start_create"}}

LoopInitFor(cs) ==
    /\ max_concurrent_jobs = 1
    /\ jobs = <<>>
    /\ job_queue = <<>>
    /\ running_jobs = <<>>
    /\ tasks = <<>>
    /\ runners = [r \in Runners |-> [pc |-> "idle", waiting |-> {}]]
    /\ pods = <<>>
    /\ terminate_calls = <<>>
    /\ issued = <<>>
    /\ inventory = NoInventory
    /\ use_api = TRUE
    /\ returned = <<>>
    /\ request = NoRequest
    /\ call = NoCall
    /\ now = 0
    /\ alerts = <<>>
    /\ dispatched = {}
    /\ monitoring = FALSE
    /\ monitor_thread = 0
    /\ loops = <<>>
    /\ callers = [c \in cs |-> Idle]
    /\ last_call = "None"
    /\ inflight = <<>>
    /\ ret = Result("None", "None", "None")

loopFrame ==
    <<queueState, pods, terminate_calls, providerVars, discoveryVars, retryVars, now, alerts,
      dispatched, inflight>>

\* start(), line 214: `if self._monitoring: return`.
StartBegin(c) ==
    /\ callers[c].pc = "idle"
    /\ Len(loops) + Cardinality(Starting) < MaxLoops
    /\ last_call' = "start"
    /\ IF monitoring
       THEN /\ ret' = Result("start", "None", "None")
            /\ UNCHANGED callers
       ELSE /\ callers' = [callers EXCEPT ![c].pc = "start_set"]
            /\ UNCHANGED ret
    /\ UNCHANGED <<monitoring, monitor_thread, loops, loopFrame>>

\* line 217: `self._monitoring = True`.
StartSetFlag(c) ==
    /\ callers[c].pc = "start_set"
    /\ monitoring' = TRUE
    /\ callers' = [callers EXCEPT ![c].pc = "start_create"]
    /\ UNCHANGED <<monitor_thread, loops, last_call, ret, loopFrame>>

\* line 218: `self._monitor_thread = threading.Thread(...)`.
StartCreate(c) ==
    /\ callers[c].pc = "start_create"
    /\ loops' = Append(loops, "unstarted")
    /\ monitor_thread' = Len(loops) + 1
    /\ callers' = [callers EXCEPT ![c].pc = "start_run"]
    /\ UNCHANGED <<monitoring, last_call, ret, loopFrame>>

\* line 219: `self._monitor_thread.start()`, on the thread the attribute
\* holds now; a thread can be started once only.
StartRun(c) ==
    /\ callers[c].pc = "start_run"
    /\ callers' = [callers EXCEPT ![c].pc = "idle"]
    /\ IF loops[monitor_thread] = "unstarted"
       THEN /\ loops' = [loops EXCEPT ![monitor_thread] = "check"]
            /\ ret' = Result("start", "None", "None")
       ELSE /\ ret' = Result("start", "RuntimeError", "None")
            /\ UNCHANGED loops
    /\ UNCHANGED <<monitoring, monitor_thread, last_call, loopFrame>>

\* stop(), line 223: `self._monitoring = False`.
StopBegin(c) ==
    /\ callers[c].pc = "idle"
    /\ monitoring' = FALSE
    /\ callers' = [callers EXCEPT ![c].pc = "stop_read"]
    /\ UNCHANGED <<monitor_thread, loops, last_call, ret, loopFrame>>

\* line 224: `if self._monitor_thread:`; without a thread the call returns.
StopRead(c) ==
    /\ callers[c].pc = "stop_read"
    /\ IF monitor_thread = 0
       THEN /\ callers' = [callers EXCEPT ![c].pc = "idle"]
            /\ last_call' = "stop"
            /\ ret' = Result("stop", "None", "None")
       ELSE /\ callers' = [callers EXCEPT ![c].pc = "stop_join"]
            /\ UNCHANGED <<last_call, ret>>
    /\ UNCHANGED <<monitoring, monitor_thread, loops, loopFrame>>

\* line 225: `self._monitor_thread.join()`, on the thread the attribute
\* holds now; join() of a thread that is not started raises RuntimeError.
StopJoin(c) ==
    /\ callers[c].pc = "stop_join"
    /\ IF loops[monitor_thread] = "unstarted"
       THEN /\ callers' = [callers EXCEPT ![c].pc = "idle"]
            /\ ret' = Result("stop", "RuntimeError", "None")
       ELSE /\ callers' = [callers EXCEPT ![c] = [pc |-> "joining", thread |-> monitor_thread]]
            /\ UNCHANGED ret
    /\ UNCHANGED <<monitoring, monitor_thread, loops, last_call, loopFrame>>

\* join() returns at once for a thread that never ran to its end.
JoinedAtOnce(t) == TRUE

\* join() returns when the thread has ended.
Joined(t) == loops[t] = "exited"

\* The end of join(), and of stop().
StopJoined(c) ==
    /\ callers[c].pc = "joining"
    /\ Joined(callers[c].thread)
    /\ callers' = [callers EXCEPT ![c] = Idle]
    /\ last_call' = "stop"
    /\ ret' = Result("stop", "None", "None")
    /\ UNCHANGED <<monitoring, monitor_thread, loops, loopFrame>>

\* _monitor_loop, line 202: `while self._monitoring:`.
LoopCheck(t) ==
    /\ loops[t] = "check"
    /\ loops' = [loops EXCEPT ![t] = IF monitoring THEN "tick" ELSE "exited"]
    /\ UNCHANGED <<monitoring, monitor_thread, callers, last_call, ret, loopFrame>>

\* lines 203-208, a tick: the snapshot of get_team_usage, appended to the
\* history, and the alerts evaluated on it.
LoopTick(t) ==
    /\ loops[t] = "tick"
    /\ loops' = [loops EXCEPT ![t] = "sleep"]
    /\ UNCHANGED <<monitoring, monitor_thread, callers, last_call, ret, loopFrame>>

\* line 210: the end of time.sleep(check_interval).
LoopWake(t) ==
    /\ loops[t] = "sleep"
    /\ loops' = [loops EXCEPT ![t] = "check"]
    /\ UNCHANGED <<monitoring, monitor_thread, callers, last_call, ret, loopFrame>>

StartSteps == \E c \in DOMAIN callers : StartBegin(c) \/ StartSetFlag(c) \/ StartCreate(c) \/ StartRun(c)

StopSteps == \E c \in DOMAIN callers : StopBegin(c) \/ StopRead(c) \/ StopJoin(c) \/ StopJoined(c)

MonitorLoop == \E t \in DOMAIN loops : LoopCheck(t) \/ LoopTick(t) \/ LoopWake(t)

LoopNext ==
    \/ StartSteps
    \/ StopSteps
    \/ MonitorLoop

\* One thread calls start() and stop().
LoopInit == LoopInitFor({1})

LoopSpec == LoopInit /\ [][LoopNext]_vars

\* Several threads call start() and stop().
ConcurrentLoopInit == LoopInitFor(Callers)

ConcurrentLoopSpec == ConcurrentLoopInit /\ [][LoopNext]_vars

----------------------------------------------------------------------------
(* PrimeManager under its two threads: the monitor's loop calls list_pods   *)
(* (through get_team_usage) while the scheduler's thread calls              *)
(* get_pod_status and terminate_pod.  A call runs its external command,     *)
(* during which the other thread runs, and then writes the record; no lock  *)
(* is taken anywhere in manager.py.                                         *)

NoOutput == StatusOutput("None", "", "None")

\* The monitor's call: the listing it holds, and the pods terminated since
\* that listing was read.
MonitorIdle == [pc |-> "idle", listing |-> <<>>, overtaken |-> {}]

\* The scheduler's call: the pod it is about, the status output it holds.
SchedulerIdle == [pc |-> "idle", pod |-> 0, out |-> NoOutput]

\* What `prime pods list` answers here: running or stopped for each listed
\* pod.
ThreadedListings == UNION {[S -> {"running", "stopped"}] : S \in SUBSET PodIds}

\* What `prime pods status` answers here: running, or the command fails.
ThreadedOutputs == {StatusOutput(st, "", "None") : st \in {"running", "error"}}

\* The pods the scheduler has made so far.
CachedPods == [PodIds -> {NewPod(st, "None") : st \in {"creating", "running"}}]

ThreadedInit ==
    /\ max_concurrent_jobs = 1
    /\ jobs = <<>>
    /\ job_queue = <<>>
    /\ running_jobs = <<>>
    /\ tasks = <<>>
    /\ runners = [r \in Runners |-> [pc |-> "idle", waiting |-> {}]]
    /\ pods \in CachedPods
    /\ terminate_calls = <<>>
    /\ issued = <<>>
    /\ inventory = SampleInventory
    /\ use_api = TRUE
    /\ returned = <<>>
    /\ request = NoRequest
    /\ call = NoCall
    /\ now = 0
    /\ alerts = <<>>
    /\ dispatched = {}
    /\ monitoring = TRUE
    /\ monitor_thread = 1
    /\ loops = <<"tick">>
    /\ callers = <<>>
    /\ last_call = "start"
    /\ inflight = [monitor |-> MonitorIdle, scheduler |-> SchedulerIdle]
    /\ ret = Result("None", "None", "None")

threadedFrame ==
    <<queueState, terminate_calls, inventory, use_api, request, retryVars, now, alerts, dispatched,
      monitoring, monitor_thread, loops, callers, last_call>>

\* list_pods, lines 667-669: the command and its parsed table.
MonitorLists(ok, listing) ==
    /\ inflight.monitor.pc = "idle"
    /\ issued' = <<Cmd("pods list", 0, "")>>
    /\ IF ok
       THEN /\ inflight' = [inflight EXCEPT !.monitor =
                                [pc |-> "listed", listing |-> listing, overtaken |-> {}]]
            /\ UNCHANGED ret
       ELSE /\ ret' = Result("list_pods", "RuntimeError", "Failed to list pods")
            /\ UNCHANGED inflight
    /\ UNCHANGED <<pods, returned, threadedFrame>>

\* list_pods, lines 672-696: the loop that writes the listed statuses.
MonitorMerges ==
    /\ inflight.monitor.pc = "listed"
    /\ pods' = list_pods(pods, inflight.monitor.listing)
    /\ returned' = listed_pods(pods, inflight.monitor.listing, TRUE)
    /\ ret' = Result("list_pods", "None", "List")
    /\ inflight' = [inflight EXCEPT !.monitor = MonitorIdle]
    /\ UNCHANGED <<issued, threadedFrame>>

\* terminate_pod, lines 712-718: the test and the command.
SchedulerTerminates(p, ok) ==
    /\ inflight.scheduler.pc = "idle"
    /\ LET t == terminate_pod(pods, p, FALSE)
       IN /\ issued' = t.issued
          /\ IF IsCached(pods, p) /\ ok
             THEN /\ inflight' = [inflight EXCEPT !.scheduler =
                                      [pc |-> "terminating", pod |-> p, out |-> NoOutput]]
                  /\ UNCHANGED ret
             ELSE /\ ret' = Result("terminate_pod", t.raised, "None")
                  /\ UNCHANGED inflight
    /\ UNCHANGED <<pods, returned, threadedFrame>>

\* terminate_pod, lines 721-725: "Update local state".
SchedulerStops ==
    /\ inflight.scheduler.pc = "terminating"
    /\ pods' = Stop(pods, inflight.scheduler.pod)
    /\ ret' = Result("terminate_pod", "None", "True")
    /\ inflight' =
           [monitor |->
                IF inflight.monitor.pc = "listed"
                THEN [inflight.monitor EXCEPT !.overtaken = @ \cup {inflight.scheduler.pod}]
                ELSE inflight.monitor,
            scheduler |-> SchedulerIdle]
    /\ UNCHANGED <<issued, returned, threadedFrame>>

\* get_pod_status, lines 554-558: the command and its parsed output.
SchedulerQueries(p, out) ==
    /\ inflight.scheduler.pc = "idle"
    /\ issued' = <<Cmd("pods status", p, "")>>
    /\ inflight' = [inflight EXCEPT !.scheduler = [pc |-> "queried", pod |-> p, out |-> out]]
    /\ UNCHANGED <<pods, returned, ret, threadedFrame>>

\* get_pod_status, lines 561-605: the record updated, or the handler.
SchedulerUpdates ==
    /\ inflight.scheduler.pc = "queried"
    /\ LET g == get_pod_status(pods, inflight.scheduler.pod, inflight.scheduler.out)
       IN /\ pods' = g.pods
          /\ ret' = IF g.raised
                    THEN Result("get_pod_status", "RuntimeError", "no cached data")
                    ELSE Result("get_pod_status", "None", "Pod")
    /\ inflight' = [inflight EXCEPT !.scheduler = SchedulerIdle]
    /\ UNCHANGED <<issued, returned, threadedFrame>>

MonitorListsAny == \E ok \in BOOLEAN, listing \in ThreadedListings : MonitorLists(ok, listing)

SchedulerTerminatesAny == \E p \in PodIds, ok \in BOOLEAN : SchedulerTerminates(p, ok)

SchedulerQueriesAny == \E p \in PodIds, out \in ThreadedOutputs : SchedulerQueries(p, out)

ThreadedNext ==
    \/ MonitorListsAny
    \/ MonitorMerges
    \/ SchedulerTerminatesAny
    \/ SchedulerStops
    \/ SchedulerQueriesAny
    \/ SchedulerUpdates

ThreadedSpec == ThreadedInit /\ [][ThreadedNext]_vars

----------------------------------------------------------------------------
(* Properties                                                              *)

TaskOf(j) == {t \in DOMAIN tasks : tasks[t].job = j}
IsTerminal(j) == jobs[j].status \in TerminalJobStatus
RunningCount == Cardinality({j \in DOMAIN jobs : jobs[j].status = "running"})

\* C1: in every reachable state the number of jobs whose status is running
\* is at most max_concurrent_jobs.
C1_ConcurrencyBound == RunningCount <= max_concurrent_jobs

\* The bound bites: as many jobs run as are allowed while another is queued.
C1_Witness ==
    /\ RunningCount = max_concurrent_jobs
    /\ job_queue # <<>>
    /\ \E r \in Runners : runners[r].pc = "waiting"

\* A job has left the running state once it has a start time and its status
\* is no longer running.
LeftRunning(j) == jobs[j].started_at # "None" /\ jobs[j].status # "running"

\* C2: every job that has left the running state has its completion time
\* stamped, and if it bound a pod, termination of that pod was attempted
\* exactly once.
C2_CleanupExactlyOnce ==
    \A j \in DOMAIN jobs :
        LeftRunning(j) =>
            /\ jobs[j].completed_at # "None"
            /\ jobs[j].pod_id # 0 => TermCount(terminate_calls, jobs[j].pod_id) = 1

\* C3: a job whose script has completed (its output location is recorded)
\* keeps status completed and has no error message, whether or not the
\* termination of its pod succeeded.
C3_CleanupFailureSwallowed ==
    \A j \in DOMAIN jobs :
        jobs[j].output_path => jobs[j].status = "completed" /\ jobs[j].error_message = "None"

\* The job is failed, with completion time and error text.
FailedRecorded(job) ==
    job.status = "failed" /\ job.completed_at # "None" /\ job.error_message # "None"

\* A step of task t in which a call made by _run_job raises: create_pod
\* fails, the pod is reported failed, or the termination after completion
\* fails.
RaisesIntoJob(t) ==
    \/ \E reply \in StatusReplies, c \in BOOLEAN : TaskStart(t, FALSE, reply, c)
    \/ \E c \in BOOLEAN : TaskStart(t, TRUE, "failed", c)
    \/ \E c \in BOOLEAN : TaskPoll(t, "failed", c)
    \/ \E c \in BOOLEAN : TaskFinish(t, FALSE, c)

\* A step of task t in which the status query of its pod fails.
StatusQueryFails(t) ==
    \/ \E c \in BOOLEAN : TaskStart(t, TRUE, "error", c)
    \/ \E c \in BOOLEAN : TaskPoll(t, "error", c)

\* process_all, resumed, admits up to the bound whatever the finished tasks
\* did: it suspends again only with the queue empty or the bound reached.
AdmitsRemaining ==
    \A r \in Runners :
        ProcessAllResume(r) =>
            \/ job_queue' = <<>>
            \/ Cardinality(DOMAIN running_jobs') >= max_concurrent_jobs

\* C4 as stated: every exception while a job runs, a failed status query
\* included, leaves the job failed with completion time and error text.
C4_AnyFailureFailsJob ==
    [][\A t \in DOMAIN tasks :
          (RaisesIntoJob(t) \/ StatusQueryFails(t)) =>
              FailedRecorded(jobs'[tasks[t].job])]_vars

\* C4, amended: an exception that reaches _run_job (pod creation failure,
\* pod reported failed, termination failure after completion) leaves the job
\* failed with completion time and error text and ends the task, and
\* process_all goes on admitting; a failed status query raises nothing into
\* the job, which stays running on the cached pod record.
C4_ExceptionFailsJob ==
    [][/\ \A t \in DOMAIN tasks :
            /\ RaisesIntoJob(t) =>
                   FailedRecorded(jobs'[tasks[t].job]) /\ tasks'[t].pc = "done"
            /\ StatusQueryFails(t) =>
                   jobs'[tasks[t].job].status = "running" /\ tasks'[t].pc = "poll"
       /\ AdmitsRemaining]_vars

\* A job has failed and process_all has since created the next job's task.
C4_Witness ==
    /\ max_concurrent_jobs = 1
    /\ Len(tasks) = 2
    /\ FailedRecorded(jobs[tasks[1].job])
    /\ tasks[2].pc = "poll"

\* A step in which the process_all execution r returns.
Returns(r) ==
    /\ ProcessAllCall(r) \/ ProcessAllResume(r)
    /\ runners'[r].pc = "returned"

\* The queue is drained: nothing queued, no task registered, every job
\* completed, failed or cancelled.
Drained ==
    /\ job_queue = <<>>
    /\ DOMAIN running_jobs = {}
    /\ \A j \in DOMAIN jobs : IsTerminal(j)

\* C5: under fair scheduling, with every started task finishing, a
\* process_all execution that is waiting eventually returns; and when a
\* process_all execution returns, the queue is drained.
C5_ProcessAllDrains ==
    /\ [][\A r \in Runners : Returns(r) => Drained']_vars
    /\ \A r \in Runners : (runners[r].pc = "waiting") ~> (runners[r].pc = "returned")

\* process_all has returned after running every job that was added.
C5_Witness ==
    /\ \E r \in Runners : runners[r].pc = "returned"
    /\ Cardinality(DOMAIN jobs) = MaxJobs
    /\ Len(tasks) = MaxJobs
    /\ Drained

\* C6: no job is handed to _run_job more than once: among all the tasks ever
\* created, alive or finished, at most one is the task of a given job; and
\* the task registered for a job is a task of that job.
C6_OneTaskPerJob ==
    /\ \A t1, t2 \in DOMAIN tasks : tasks[t1].job = tasks[t2].job => t1 = t2
    /\ \A j \in DOMAIN running_jobs : running_jobs[j] \in TaskOf(j)

\* Two process_all executions are suspended at once, and every job that was
\* added has got its task.
C6_Witness ==
    /\ \A r \in Runners : runners[r].pc = "waiting"
    /\ Len(tasks) = MaxJobs
    /\ \A j \in JobIds : Cardinality(TaskOf(j)) = 1

\* Job ids are handed out in the order of the add_job calls.
EnqueuedBefore(a, b) == a \in DOMAIN jobs /\ b \in DOMAIN jobs /\ a < b

\* C7: add_job puts the new pending job at the tail of the queue and runs
\* nothing (no task, no registration, no pod call); and admission is in
\* enqueue order: if a was enqueued before b, neither is cancelled and b has
\* a task, then a has a task that was created earlier.
C7_FifoAdmission ==
    /\ [][AddJob =>
            LET j == Cardinality(DOMAIN jobs) + 1
            IN /\ job_queue' = Append(job_queue, j)
               /\ jobs'[j].status = "pending"
               /\ \A k \in DOMAIN jobs : jobs'[k] = jobs[k]
               /\ UNCHANGED <<tasks, running_jobs, runners, managerVars>>]_vars
    /\ [](\A a, b \in JobIds :
            (/\ EnqueuedBefore(a, b)
             /\ jobs[a].status # "cancelled"
             /\ jobs[b].status # "cancelled"
             /\ TaskOf(b) # {})
            => \E ta \in TaskOf(a) : \A tb \in TaskOf(b) : ta < tb)

\* With one job at a time, the first job has finished and the second, which
\* waited in the queue behind it, has been admitted after it.
C7_Witness ==
    /\ max_concurrent_jobs = 1
    /\ Len(tasks) = 2
    /\ tasks[1].job = 1 /\ tasks[2].job = 2
    /\ jobs[1].status = "completed"
    /\ jobs[2].status = "running"

\* A step of cancel_job(j) taken while job j is pending.
CancelsPending(j) ==
    /\ j \in DOMAIN jobs
    /\ jobs[j].status = "pending"
    /\ \E termOk \in BOOLEAN : cancel_job(j, termOk)

\* C8: cancel_job on a pending job takes its id out of the queue, leaving
\* the other ids in order, marks it cancelled with a completion time,
\* returns True, and makes no pod call.
C8_CancelPending ==
    [][\A j \in JobIds :
          CancelsPending(j) =>
              /\ job_queue' = SelectSeq(job_queue, LAMBDA k : k # j)
              /\ jobs'[j].status = "cancelled"
              /\ jobs'[j].completed_at = utcnow
              /\ ret' = "True"
              /\ UNCHANGED managerVars]_vars

\* A queued job was cancelled before it ever ran, while another one is still
\* queued.
C8_Witness ==
    /\ ret = "True"
    /\ job_queue # <<>>
    /\ \E j \in DOMAIN jobs :
          /\ jobs[j].status = "cancelled"
          /\ jobs[j].started_at = "None"
          /\ TaskOf(j) = {}
          /\ ~InQueue(job_queue, j)

\* A step of cancel_job(j) taken while job j is running.
CancelsRunning(j, termOk) ==
    /\ j \in DOMAIN jobs
    /\ jobs[j].status = "running"
    /\ cancel_job(j, termOk)

\* The task has been cancelled: CancelledError is pending or was delivered.
Cancelled(t) == tasks[t].pc \in {"cancelling", "cancelled"}

\* C9: cancel_job on a running job, whether the termination of its pod
\* succeeds or fails, returns True, marks the job cancelled, unregisters it,
\* cancels its task, which is suspended in the readiness loop or in the
\* execution, and calls terminate_pod once for the bound pod; a cancelled
\* task runs no further code of _run_job, and its job stays cancelled.
C9_CancelRunning ==
    /\ [][\A j \in JobIds, termOk \in BOOLEAN :
             CancelsRunning(j, termOk) =>
                 /\ ret' = "True"
                 /\ jobs'[j].status = "cancelled"
                 /\ jobs'[j].completed_at = utcnow
                 /\ j \notin DOMAIN running_jobs'
                 /\ TaskOf(j) # {}
                 /\ \A t \in TaskOf(j) :
                       tasks[t].pc \in {"poll", "exec"} /\ tasks'[t].pc = "cancelling"
                 /\ jobs[j].pod_id # 0 =>
                       TermCount(terminate_calls', jobs[j].pod_id)
                           = TermCount(terminate_calls, jobs[j].pod_id) + 1]_vars
    /\ [][\A t \in DOMAIN tasks :
             Cancelled(t) =>
                 /\ Cancelled(t)'
                 /\ jobs'[tasks[t].job] = jobs[tasks[t].job]]_vars
    /\ [](\A t \in DOMAIN tasks :
             Cancelled(t) => jobs[tasks[t].job].status = "cancelled")

\* A running job was cancelled, the termination of its pod failed, and its
\* task has ended by cancellation.
C9_Witness ==
    \E t \in DOMAIN tasks :
        LET job == jobs[tasks[t].job]
        IN /\ tasks[t].pc = "cancelled"
           /\ job.status = "cancelled"
           /\ tasks[t].job \notin DOMAIN running_jobs
           /\ job.pod_id # 0
           /\ TermCount(terminate_calls, job.pod_id) = 1
           /\ pods[job.pod_id].status # "stopped"

\* A step of cancel_job(j) taken for an unknown id or a job that is already
\* completed, failed or cancelled.
CancelsNothing(j) ==
    /\ j \notin DOMAIN jobs \/ IsTerminal(j)
    /\ \E termOk \in BOOLEAN : cancel_job(j, termOk)

\* C10: cancel_job on a completed, failed or cancelled job returns False,
\* and on an unknown id raises ValueError; in both cases the jobs, the
\* queue, the registered tasks, the tasks and the pod map are unchanged and
\* no termination is issued.
C10_CancelTerminalNoop ==
    [][\A j \in JobIds :
          CancelsNothing(j) =>
              /\ ret' = IF j \in DOMAIN jobs THEN "False" ELSE "ValueError"
              /\ UNCHANGED <<jobs, job_queue, running_jobs, tasks, runners,
                             managerVars>>]_vars

\* cancel_job has returned False for a job that had completed on its pod.
C10_Witness ==
    /\ ret = "False"
    /\ \E j \in DOMAIN jobs :
          /\ jobs[j].status = "completed"
          /\ jobs[j].pod_id # 0
          /\ TermCount(terminate_calls, jobs[j].pod_id) = 1

\* C11: a cached pod whose status is stopped or failed keeps that status in
\* every step, whatever the provider answers.
C11_TerminalPodStatusAbsorbing ==
    [][\A p \in DOMAIN pods :
          pods[p].status \in {"stopped", "failed"} =>
              p \in DOMAIN pods' /\ pods'[p].status = pods[p].status]_vars

\* A step of terminate_pod(p) on a cached pod whose external call succeeds.
TerminatesCached(p) == p \in DOMAIN pods /\ TerminatePod(p, TRUE)

\* C12: terminate_pod on a cached pod whose external termination succeeds
\* returns True, sets the pod's status to stopped and stamps its stop time,
\* keeps every identity in the map and leaves every other record, and the
\* pod's other fields, as they were.
C12_TerminateStops ==
    [][\A p \in PodIds :
          TerminatesCached(p) =>
              /\ ret' = Result("terminate_pod", "None", "True")
              /\ DOMAIN pods' = DOMAIN pods
              /\ pods'[p] = [pods[p] EXCEPT !.status = "stopped", !.stopped_at = utcnow]
              /\ \A q \in DOMAIN pods \ {p} : pods'[q] = pods[q]]_vars

\* A pod has just been terminated with success while another cached pod is
\* running.
C12_Witness ==
    /\ ret = Result("terminate_pod", "None", "True")
    /\ \E p, q \in DOMAIN pods :
          /\ p # q
          /\ issued = <<Cmd("pods terminate", p, "")>>
          /\ pods[p].status = "stopped" /\ pods[p].stopped_at = utcnow
          /\ pods[q].status = "running" /\ pods[q].stopped_at = "None"

\* A step of terminate_pod(p) for an identity that is not in the map.
TerminatesUnknown(p) == p \notin DOMAIN pods /\ \E ok \in BOOLEAN : TerminatePod(p, ok)

\* C13: terminate_pod on an identity that is not in the pod map raises
\* ValueError, runs no external command and leaves the map unchanged.
C13_TerminateUnknown ==
    [][\A p \in PodIds :
          TerminatesUnknown(p) =>
              /\ ret' = Result("terminate_pod", "ValueError", "None")
              /\ issued' = <<>>
              /\ pods' = pods]_vars

\* terminate_pod has raised not-found while another pod is cached.
C13_Witness ==
    /\ ret = Result("terminate_pod", "ValueError", "None")
    /\ issued = <<>>
    /\ Cardinality(DOMAIN pods) = 1

\* C14: no step removes an identity from the pod map.
C14_PodsNeverRemoved == [][DOMAIN pods \subseteq DOMAIN pods']_vars

\* After a termination, a listing that does not show the terminated pod has
\* been taken, and every pod is still in the map.
C14_Witness ==
    /\ ret = Result("list_pods", "None", "List")
    /\ DOMAIN pods = PodIds
    /\ \E p \in PodIds : pods[p].status = "stopped" /\ pods[p].stopped_at = utcnow

\* The parsed output of a status command that failed.
QueryFailed == StatusOutput("error", "", "None")

Connects(p) ==
    \E interactive \in BOOLEAN, out \in StatusOutputs(p) : SshToPod(p, interactive, out)

NotRunningError == Result("ssh_to_pod", "RuntimeError", "not running")

\* C19 as stated: ssh_to_pod on a pod cached as creating, stopped or failed
\* raises the not-running error whatever the status query answers.
C19_CachedStatusDecides ==
    [][\A p \in DOMAIN pods :
          (pods[p].status \in {"creating", "stopped", "failed"} /\ Connects(p)) =>
              ret' = NotRunningError]_vars

\* C19, amended: ssh_to_pod first refreshes the cached record from the
\* status query; it raises the not-running error exactly when the record is
\* cached and its status after the refresh is not running, and it returns
\* only for a pod whose refreshed status is running.  When the query fails
\* the cached status is the refreshed one.
C19_RefreshedStatusDecides ==
    [][\A p \in PodIds :
          (ret'.op = "ssh_to_pod" /\ Connects(p)) =>
              /\ ret' = NotRunningError
                    <=> (p \in DOMAIN pods' /\ pods'[p].status # "running")
              /\ ret'.raised = "None"
                    => (p \in DOMAIN pods' /\ pods'[p].status = "running")
              /\ (p \in DOMAIN pods /\ SshToPod(p, FALSE, QueryFailed))
                    => (pods' = pods /\ (ret'.raised = "None" <=> pods[p].status = "running"))]_vars

\* ssh_to_pod has raised not-running for a pod that the provider still
\* reports as being created.
C19_Witness ==
    /\ ret = NotRunningError
    /\ \E p \in DOMAIN pods :
          issued = <<Cmd("pods status", p, "")>> /\ pods[p].status = "creating"

\* C20: a non-interactive ssh_to_pod returns only when an endpoint is cached
\* for the pod, and then returns that endpoint; without one it raises.
C20_EndpointRequired ==
    [][\A p \in PodIds : \A out \in StatusOutputs(p) :
          (ret'.raised = "None" /\ SshToPod(p, FALSE, out)) =>
              /\ pods'[p].ssh_connection # "None"
              /\ ret'.value = pods'[p].ssh_connection]_vars

\* What the discovery made by create_pod under the ceiling max_cost returns.
Discovered(max_cost) ==
    find_gpus(Consulted(inventory, use_api), RequestedType, 1, max_cost, "None", FALSE)

\* The provisioning commands among the commands a call issued.
ProvisioningCalls(cmds) == {i \in 1..Len(cmds) : cmds[i].cmd = "pods create"}

\* A step of create_pod whose discovery returns nothing, or returns a first
\* resource without identifier.
CreatesWithout(max_cost, error) ==
    /\ ~Discovered(max_cost).raised
    /\ \/ error = "no resources" /\ Discovered(max_cost).resources = <<>>
       \/ /\ error = "missing prime_id"
          /\ Discovered(max_cost).resources # <<>>
          /\ Discovered(max_cost).resources[1].prime_id = ""
    /\ \E out \in ProvisionOutcomes : CreatePod(max_cost, out)

\* C15: create_pod raises, issues no provisioning command and adds no pod
\* record when discovery returns no resource (no-resources error) or the
\* first returned resource has no identifier (missing-identifier error).
C15_NoProvisioningWithoutResource ==
    [][\A max_cost \in Ceilings, error \in {"no resources", "missing prime_id"} :
          (ret'.op = "create_pod" /\ CreatesWithout(max_cost, error)) =>
              /\ ret' = Result("create_pod", "RuntimeError", error)
              /\ ProvisioningCalls(issued') = {}
              /\ pods' = pods]_vars

\* create_pod has raised the missing-identifier error although a later
\* resource of the inventory has an identifier.
C15_Witness ==
    /\ ret = Result("create_pod", "RuntimeError", "missing prime_id")
    /\ issued = <<Cmd("availability list", 0, "")>>
    /\ inventory.cli.ok /\ Len(inventory.cli.resources) = 2
    /\ inventory.cli.resources[1].prime_id = ""
    /\ inventory.cli.resources[2].prime_id # ""

\* A step of create_pod whose discovery returns a first resource with an
\* identifier and whose provisioning command succeeds.
CreatesWith(max_cost, out) ==
    /\ out.ok
    /\ ~Discovered(max_cost).raised
    /\ Discovered(max_cost).resources # <<>>
    /\ Discovered(max_cost).resources[1].prime_id # ""
    /\ CreatePod(max_cost, out)

\* C16: when discovery returns a first resource with an identifier and the
\* provisioning command succeeds, create_pod returns a Pod in status
\* creating, stored in the map under the identity parsed from the output or
\* under a synthesized one.
C16_CreateStoresPod ==
    [][\A max_cost \in Ceilings, out \in ProvisionOutcomes :
          (ret'.op = "create_pod" /\ CreatesWith(max_cost, out)) =>
              LET pod_id == IF out.pod_id # 0 THEN out.pod_id ELSE LocalId(pods)
              IN /\ ret' = Result("create_pod", "None", "Pod")
                 /\ pod_id \in DOMAIN pods'
                 /\ pods'[pod_id].status = "creating"]_vars

\* The least cost among the resources rs.
IsCheapest(r, rs) == \A i \in 1..Len(rs) : r.cost_per_hour <= rs[i].cost_per_hour

\* C17: the identifier create_pod passes to the provisioning command is
\* that of a resource whose cost is minimal among the resources discovery
\* returns for the request.
C17_ProvisionsCheapest ==
    [][\A max_cost \in Ceilings, out \in ProvisionOutcomes :
          (ret'.op = "create_pod" /\ CreatePod(max_cost, out)) =>
              \A i \in ProvisioningCalls(issued') :
                  \E k \in 1..Len(Discovered(max_cost).resources) :
                      /\ Discovered(max_cost).resources[k].prime_id = issued'[i].prime_id
                      /\ IsCheapest(Discovered(max_cost).resources[k],
                                    Discovered(max_cost).resources)]_vars

ActiveStatus == {"creating", "running"}

\* C21: list_pods(active_only=True) returns only pods whose status is
\* creating or running, and list_pods(active_only=False) returns every
\* listed pod.
C21_ActiveOnlyFilters ==
    [][\A listing \in Listings :
          /\ (ret'.op = "list_pods" /\ ListPods(TRUE, listing, TRUE)) =>
                 \A p \in DOMAIN returned' : returned'[p] \in ActiveStatus
          /\ (ret'.op = "list_pods" /\ ListPods(TRUE, listing, FALSE)) =>
                 DOMAIN returned' = DOMAIN listing]_vars

\* What the attempt just made met.
LastTried(c) == c.tried[Len(c.tried)]

IsTimeout(o) == o.kind \in {"TimeoutExpired", "Timeout"}

IsRateLimit(o) ==
    \/ o.kind = "CalledProcessError" /\ MentionsRateLimit(o.stderr)
    \/ o.kind = "HTTPError" /\ o.status = 429

IsAuthFailure(o) ==
    \/ o.kind = "CalledProcessError" /\ MentionsAuth(o.stderr)
    \/ o.kind = "HTTPError" /\ o.status = 401

RetryExhausted == {"timed out", "rate limit exceeded"}

\* An attempt of the call in progress is made in this step.
Attempted == InProgress /\ call' # call

\* C22: a call is re-issued only after a timeout or a rate-limit response;
\* an authentication failure ends it at that attempt with the authentication
\* error, and every other failure ends it at that attempt with a failure
\* error that is neither the authentication nor a retry-exhausted error, in
\* the CLI wrapper and in the API client.
C22_RetryOnlyTransient ==
    [][Attempted =>
          LET o == LastTried(call')
          IN /\ call'.state = "running" => (IsTimeout(o) \/ IsRateLimit(o))
             /\ IsAuthFailure(o) =>
                    (call'.state = "raised" /\ call'.error = "not authenticated")
             /\ (o.kind # "ok" /\ ~IsTimeout(o) /\ ~IsRateLimit(o) /\ ~IsAuthFailure(o)) =>
                    /\ call'.state = "raised"
                    /\ call'.error \notin RetryExhausted \cup {"not authenticated"}]_vars

\* A command was retried after a timeout and then ended at once on an
\* authentication failure.
C22_Witness ==
    /\ call.client = "cli"
    /\ call.state = "raised" /\ call.error = "not authenticated"
    /\ Len(call.tried) = 2
    /\ call.tried[1].kind = "TimeoutExpired"
    /\ call.tried[2].stderr = "Unauthorized"

\* The most attempts a call makes.
MaxAttempts(c) == IF c.client = "cli" THEN CliMaxRetries ELSE 1 + ApiMaxRetries

\* The base delay of the retry after the outcome o.
BaseDelay(c, o) ==
    IF c.client = "api" THEN ApiBaseDelay
    ELSE IF IsTimeout(o) THEN CliTimeoutBase ELSE CliRateLimitBase

\* The bounds on a call: attempts, delays, and how it ends.
RetryBounded ==
    call.client # "None" =>
        /\ Len(call.tried) <= MaxAttempts(call)
        /\ Len(call.slept) = call.attempt
        /\ \A k \in 1..Len(call.slept) :
              call.slept[k] = BaseDelay(call, call.tried[k]) * Pow2(k - 1)
        /\ call.state = "returned" =>
              \A k \in 1..Len(call.tried) : (call.tried[k].kind = "ok") <=> (k = Len(call.tried))
        /\ (call.state = "raised" /\ Len(call.tried) = MaxAttempts(call)
              /\ (IsTimeout(LastTried(call)) \/ IsRateLimit(LastTried(call)))
              /\ ~IsAuthFailure(LastTried(call))) =>
              call.error = (IF IsTimeout(LastTried(call))
                            THEN "timed out" ELSE "rate limit exceeded")

\* C23: every external call ends, with the result of its first successful
\* attempt or with an error; the CLI wrapper makes at most 3 attempts and the
\* API client at most 4, the delay before retry k is the base delay times
\* 2^k, and a timeout or rate limit at the last attempt raises the
\* retry-exhausted error.
C23_BoundedRetry == []RetryBounded /\ (InProgress ~> ~InProgress)

\* A command met a timeout, then two rate limits, and gave up.
C23_Witness ==
    /\ call.client = "cli"
    /\ call.state = "raised" /\ call.error = "rate limit exceeded"
    /\ call.slept = <<1, 10>>
    /\ Len(call.tried) = 3

\* The records the structured source produced for the call: none when it
\* is not consulted or fails.
ApiProduced ==
    IF use_api /\ inventory.api.ok THEN inventory.api.resources ELSE <<>>

\* The table source fails: the command fails, or a row's GPU text is not
\* the spelling of a member, which ends the conversion with an exception.
TableFails ==
    \/ ~inventory.cli.ok
    \/ \E i \in 1..Len(inventory.cli.resources) :
          inventory.cli.resources[i].gpu_type \notin DOMAIN GPUTypeSpelling

\* The records the conversion of the table kept for the request.
TableProduced(gpu_type, min_count, max_cost) ==
    IF inventory.cli.ok
    THEN CliLoop(inventory.cli.resources, <<>>, gpu_type, min_count, max_cost).resources
    ELSE <<>>

Elements(seq) == {seq[i] : i \in 1..Len(seq)}

\* The same offer, whatever identifier and spelling of the category it has.
SameOffer(r, a) ==
    /\ r.available_count = a.available_count
    /\ r.cost_per_hour = a.cost_per_hour
    /\ r.provider = a.provider

\* C24: every resource find_gpus returns has available_count >= min_count
\* and, when a ceiling is supplied (0 included), cost_per_hour <= ceiling,
\* whichever sources produced records.
C24_FiltersHold ==
    [][\A gpu_type \in Categories, min_count \in MinCounts, max_cost \in FindCeilings,
          include_free \in BOOLEAN :
          FindGpus(gpu_type, min_count, max_cost, include_free) =>
              \A r \in Elements(returned') :
                  /\ r.available_count >= min_count
                  /\ max_cost # NoCeiling => r.cost_per_hour <= max_cost]_vars

\* C25: without include_free find_gpus returns no resource of cost <= 0;
\* with include_free a zero-cost record of the source that is filtered (the
\* structured one if it produced records, else the table) with enough GPUs
\* is returned.
C25_FreeOnlyOnRequest ==
    [][\A gpu_type \in Categories, min_count \in MinCounts, max_cost \in FindCeilings,
          include_free \in BOOLEAN :
          (FindGpus(gpu_type, min_count, max_cost, include_free) /\ ret'.raised = "None") =>
              /\ ~include_free => \A r \in Elements(returned') : r.cost_per_hour > 0
              /\ include_free =>
                    \A a \in Elements(IF ApiProduced # <<>> THEN ApiProduced
                                      ELSE TableProduced(gpu_type, min_count, max_cost)) :
                        (a.cost_per_hour = 0 /\ a.available_count >= min_count) =>
                            \E r \in Elements(returned') : SameOffer(r, a)]_vars

\* find_gpus(include_free=True) has returned a free structured offer and a
\* priced one.
C25_Witness ==
    /\ ret = Result("find_gpus", "None", "List")
    /\ use_api /\ inventory.api.ok
    /\ \E r \in Elements(returned) : r.cost_per_hour = 0 /\ r.provider = "gcp"
    /\ \E r \in Elements(returned) : r.cost_per_hour > 0

\* The identifier the merge gives the structured record a: that of the
\* first table record of the same category and provider, if there is one.
MergedId(a, cs) ==
    LET same == {i \in 1..Len(cs) :
                    cs[i].gpu_type = a.gpu_type /\ Lower(cs[i].provider) = Lower(a.provider)}
    IN IF same = {} THEN a.prime_id
       ELSE cs[CHOOSE i \in same : \A k \in same : i <= k].prime_id

\* C26: when both sources produce records, the result is the structured
\* records that pass the filters, in their order, each with its own price,
\* availability and provider and with the identifier of the first table
\* record of the same category and provider name (compared without case),
\* its own identifier if there is none.
C26_MergeTakesTableId ==
    [][\A gpu_type \in Categories, min_count \in MinCounts, max_cost \in FindCeilings,
          include_free \in BOOLEAN :
          (/\ FindGpus(gpu_type, min_count, max_cost, include_free)
           /\ ApiProduced # <<>>
           /\ TableProduced(gpu_type, min_count, max_cost) # <<>>) =>
              LET cs == TableProduced(gpu_type, min_count, max_cost)
                  merged == [i \in 1..Len(ApiProduced) |->
                                [ApiProduced[i] EXCEPT !.prime_id = MergedId(ApiProduced[i], cs)]]
              IN /\ ret'.raised = "None"
                 /\ \A r \in Elements(returned') : r \in Elements(merged)
                 /\ \A i \in 1..Len(merged) :
                       PassesFilters(merged[i], min_count, max_cost, "None", include_free)
                           => merged[i] \in Elements(returned')]_vars

\* A structured record of provider "AWS" has been returned with the
\* identifier of the table's "aws" row.
C26_Witness ==
    /\ ret = Result("find_gpus", "None", "List")
    /\ use_api /\ inventory.api.ok /\ inventory.cli.ok
    /\ \E a \in Elements(inventory.api.resources) : a.provider = "AWS" /\ a.prime_id = ""
    /\ \E r \in Elements(returned) : r.provider = "AWS" /\ r.prime_id = "c1"

\* C27: when find_gpus returns table records because the structured source
\* failed or returned nothing, they carry the table's identifiers and
\* use_api is false after the call.
C27_DegradedFlag ==
    [][\A gpu_type \in Categories, min_count \in MinCounts, max_cost \in FindCeilings,
          include_free \in BOOLEAN :
          (/\ FindGpus(gpu_type, min_count, max_cost, include_free)
           /\ ret'.raised = "None"
           /\ returned' # <<>>
           /\ ApiProduced = <<>>) =>
              /\ \A r \in Elements(returned') :
                    \E c \in Elements(inventory.cli.resources) :
                        SameOffer(r, c) /\ r.prime_id = c.prime_id
              /\ use_api' = FALSE]_vars

\* C28: find_gpus raises exactly when the table source fails and the
\* structured source produced no records; otherwise it returns table
\* records when the structured source produced none, and structured
\* records when it produced some.
C28_FailsOnlyWithoutBoth ==
    [][\A gpu_type \in Categories, min_count \in MinCounts, max_cost \in FindCeilings,
          include_free \in BOOLEAN :
          FindGpus(gpu_type, min_count, max_cost, include_free) =>
              /\ ret'.raised # "None" <=> (TableFails /\ ApiProduced = <<>>)
              /\ (ret'.raised = "None" /\ ApiProduced = <<>>) =>
                    \A r \in Elements(returned') :
                        \E c \in Elements(inventory.cli.resources) : SameOffer(r, c)
              /\ ApiProduced # <<>> =>
                    \A r \in Elements(returned') :
                        \E a \in Elements(ApiProduced) : SameOffer(r, a)]_vars

\* The table command failed, the structured source had records, and
\* find_gpus returned them.
C28_Witness ==
    /\ ret = Result("find_gpus", "None", "List")
    /\ ~inventory.cli.ok
    /\ use_api /\ inventory.api.ok
    /\ returned # <<>>

\* The resources the listing sorts: those discovery returns that pass the
\* additional filters.
Filtered(include_free, min_cost, min_availability) ==
    ListingFilters(find_gpus(Consulted(inventory, use_api), "None", 1, NoCeiling, "None",
                             include_free).resources,
                   min_cost, min_availability)

Bijections(n) == {f \in [1..n -> 1..n] : \A i, j \in 1..n : f[i] = f[j] => i = j}

\* s is xs in the stable order of the key: ascending (descending when
\* reverse), equal keys in the order they have in xs.
IsStableSortOf(s, xs, sort_by, reverse) ==
    /\ Len(s) = Len(xs)
    /\ \E f \in Bijections(Len(xs)) :
          /\ \A i \in 1..Len(xs) : s[i] = xs[f[i]]
          /\ \A i, j \in 1..Len(xs) :
                i < j =>
                    LET ki == SortKey(s[i], sort_by)
                        kj == SortKey(s[j], sort_by)
                    IN \/ (IF reverse THEN ki > kj ELSE ki < kj)
                       \/ ki = kj /\ f[i] < f[j]

\* The stable sort of xs.
StableSorted(xs, sort_by, reverse) ==
    CHOOSE s \in [1..Len(xs) -> Elements(xs)] : IsStableSortOf(s, xs, sort_by, reverse)

Prefix(s, n) == SubSeq(s, 1, IF n < Len(s) THEN n ELSE Len(s))

\* A step of the listing that shows a table.
Lists == ret'.op = "list_resources" /\ ret'.raised = "None"

\* The stable sort, by the key asked for, of what the request's filters keep.
SortedListing(req) ==
    StableSorted(Filtered(req.include_free, req.min_cost, req.min_availability),
                 req.sort_by, req.sort_desc)

Ticks == ret'.op = "tick" /\ now' = now /\ DOMAIN alerts' = DOMAIN alerts

\* The turn fires the alert: it sends its notification and stamps it.
Fires(a) == a \in dispatched' /\ alerts'[a].last_triggered # alerts[a].last_triggered

\* C30: an alert fires at most once per trailing hour.  A turn of the loop
\* within one hour of the alert's last_triggered neither sends its
\* notification nor changes last_triggered, whatever its condition says; a
\* turn sends the notification exactly when it stamps last_triggered with the
\* present time; so a firing comes at least one hour after the firing before.
C30_OncePerHour ==
    [][Ticks =>
          \A a \in DOMAIN alerts :
              LET before == alerts[a].last_triggered
                  after == alerts'[a].last_triggered
              IN /\ (before # Never /\ now - before < Hour) =>
                        (a \notin dispatched' /\ after = before)
                 /\ (a \in dispatched') = (after # before)
                 /\ Fires(a) => /\ after = now
                                /\ before = Never \/ after - before >= Hour]_vars

\* A turn of the loop found the condition of an active alert true, later
\* than the alert's last firing and within the hour after it, and sent nothing
\* for it.
C30_Witness ==
    /\ ret.op = "tick" /\ ret.raised = "None"
    /\ \E a \in DOMAIN alerts \cap ret.value :
          /\ alerts[a].is_active
          /\ alerts[a].last_triggered # Never
          /\ now > alerts[a].last_triggered
          /\ now - alerts[a].last_triggered < Hour
          /\ a \notin dispatched

\* A step that is a call of add_alert.
AddsAlert == ret'.op = "add_alert" /\ now' = now

\* C38: add_alert returns an alert whose id no registered alert has, so it
\* replaces none, and the number of registered alerts grows by exactly one.
C38_AddAlertIsFresh ==
    [][AddsAlert =>
          /\ ret'.value \cap DOMAIN alerts = {}
          /\ \A a \in DOMAIN alerts : alerts'[a] = alerts[a]
          /\ Cardinality(DOMAIN alerts') = Cardinality(DOMAIN alerts) + 1]_vars

\* A step of terminate_pod(p) on a cached pod whose external call fails.
TerminationFails(p) ==
    /\ ret'.op = "terminate_pod"
    /\ p \in DOMAIN pods
    /\ TerminatePod(p, FALSE)

\* C39: when the external termination call fails, terminate_pod raises and
\* leaves the pod's record as it was: the status is not set to stopped and no
\* stop time is stamped.
C39_FailedTerminationChangesNothing ==
    [][\A p \in PodIds :
          TerminationFails(p) =>
              /\ ret' = Result("terminate_pod", "RuntimeError", "None")
              /\ pods' = pods]_vars

\* The termination of a running pod has just failed: the call was made, the
\* pod is running and has no stop time.
C39_Witness ==
    /\ ret = Result("terminate_pod", "RuntimeError", "None")
    /\ \E p \in DOMAIN pods :
          /\ issued = <<Cmd("pods terminate", p, "")>>
          /\ pods[p].status = "running"
          /\ pods[p].stopped_at = "None"

\* C36: terminal job states are absorbing: a job whose status is completed,
\* failed or cancelled keeps that status in every later step; a job cancelled
\* before its task has started never becomes running and gets no pod.
C36_TerminalJobStatusAbsorbing ==
    [][\A j \in DOMAIN jobs :
          IsTerminal(j) =>
              /\ jobs'[j].status = jobs[j].status
              /\ jobs'[j].pod_id = jobs[j].pod_id]_vars

\* C34: every job that process_all starts eventually reaches a terminal
\* state, whatever its pod reports: a pod that never reports running or
\* failed does not keep the job polling for ever.
C34_StartedJobEnds ==
    \A j \in JobIds :
        (j \in DOMAIN jobs /\ jobs[j].status = "running")
            ~> (j \in DOMAIN jobs /\ IsTerminal(j))

\* C35: when a category is supplied to find_gpus, every resource it returns
\* has that category, whichever source the returned records come from and
\* whatever records the structured source sends back.
C35_CategoryFilterHolds ==
    [][\A min_count \in MinCounts, max_cost \in FindCeilings, include_free \in BOOLEAN :
          FindGpus(RequestedType, min_count, max_cost, include_free) =>
              \A r \in Elements(returned') : r.gpu_type = RequestedType]_vars

\* The identifiers of the rows the table source shows to the call.
TableIds ==
    IF inventory.cli.ok
    THEN {inventory.cli.resources[i].prime_id : i \in 1..Len(inventory.cli.resources)}
    ELSE {}

\* C37: every configuration identifier create_pod passes to the provisioning
\* command is the identifier of a table record of that discovery, never one
\* of the structured source, also when a structured record has no matching
\* table record or the table source returned nothing.
C37_ProvisionsTableId ==
    [][\A max_cost \in Ceilings, out \in ProvisionOutcomes :
          (ret'.op = "create_pod" /\ CreatePod(max_cost, out)) =>
              \A i \in ProvisioningCalls(issued') : issued'[i].prime_id \in TableIds]_vars

\* The records of the raw input that are neither skipped nor lack anything:
\* structured records with a price, a stock status and a count, full rows
\* in stock under the marker.
Complete ==
    IF request.command = "structured"
    THEN {i \in 1..Len(request.records) :
            /\ request.records[i].price \notin {Absent, Null}
            /\ request.records[i].stockStatus \notin {Absent, Null}
            /\ request.records[i].gpuCount \notin {Absent, Null}}
    ELSE {i \in 1..Len(request.rows) :
            /\ request.marked
            /\ request.rows[i].cells = FullRow
            /\ InStock(request.rows[i].status)}

\* C33: the normalizer never raises: whatever the raw input, of either
\* shape, a record is skipped or converted with defaults and the conversion
\* of the other records continues, so that every complete record is in the
\* result.
C33_NormalizerNeverRaises ==
    [][ret'.op \in {"to_gpu_resources", "parse_availability_table"} =>
          /\ ret'.raised = "None"
          /\ Len(returned') >= Cardinality(Complete)]_vars

\* A tick of a loop.
LoopTicks == \E t \in DOMAIN loops : LoopTick(t)

\* C31: stop() returns only after the loop has exited: while the latest
\* call is a stop() that has returned, with no start() called since, every
\* thread has left its loop, and no tick is made.
C31_StopWaitsForLoop ==
    [][last_call' = "stop" => Running' = {} /\ (last_call = "stop" => ~LoopTicks)]_vars

\* A stop() has returned with a loop started before it.
C31_Witness == last_call = "stop" /\ ret.op = "stop" /\ loops # <<>> /\ monitor_thread # 0

\* C40: under any interleaving of start() and stop() calls of several
\* threads, at most one loop is running, no stop() call ends in an
\* exception or waits on a loop that goes on, and when the latest call is a
\* stop() that has returned, with no call in progress, no loop is running.
C40_OneLoopAndStopEnds ==
    /\ Cardinality(Running) <= 1
    /\ ret.op = "stop" => ret.raised = "None"
    /\ \A c \in DOMAIN callers :
          callers[c].pc = "joining" /\ monitoring => loops[callers[c].thread] = "exited"
    /\ (last_call = "stop" /\ \A c \in DOMAIN callers : callers[c].pc = "idle") => Running = {}

\* C32: the writes to one pod record are serialized: a status that the
\* monitor's list_pods read from the provider before a termination is never
\* written over the stopped status that the termination set.
C32_StaleStatusNotOverStopped ==
    [][MonitorMerges =>
          \A p \in inflight.monitor.overtaken :
              pods[p].status = "stopped" => pods'[p].status = "stopped"]_vars

====
